---------------------------- MODULE Spec2Model ----------------------------
(***************************************************************************)
(* Hybrid memory retrieval of MoFox_Bot: PathScoreExpansion                *)
(* (src/memory_graph/utils/path_expansion.py), cosine_similarity,          *)
(* VectorStore.get_node_by_id, expand_memories_with_semantic_filter and    *)
(* MemoryTools.search_memories.                                            *)
(*                                                                         *)
(* Floats are fixed-point integers with Scale = 1.0; every product is      *)
(* rescaled right away so that no intermediate value leaves 32 bits.       *)
(* Python None is the empty sequence NoneVal where a vector or a list is   *)
(* expected.                                                               *)
(***************************************************************************)
EXTENDS Integers, Sequences, FiniteSets, TLC

Scale == 1000

\* ---- bounds of the model ------------------------------------------------
MaxTopK == 2
\* the invocations of expand_with_path_scoring on one instance, numbered in
\* the order of their calls
Runs == {1, 2}

\* ---- generic helpers ----------------------------------------------------
NoneVal == <<>>

Max(a, b) == IF a >= b THEN a ELSE b

Min(a, b) == IF a <= b THEN a ELSE b

Range(s) == {s[i] : i \in DOMAIN s}

RECURSIVE SumSeq(_)
SumSeq(s) == IF s = <<>> THEN 0 ELSE Head(s) + SumSeq(Tail(s))

Take(s, n) == SubSeq(s, 1, Min(Len(s), Max(n, 0)))

\* floor of the square root (Newton iteration from above)
RECURSIVE SqrtIter(_, _)
SqrtIter(n, x) ==
    LET y == (x + n \div x) \div 2
    IN IF y >= x THEN x ELSE SqrtIter(n, y)

ISqrt(n) == IF n <= 0 THEN 0 ELSE SqrtIter(n, n)

\* list.sort(key=..., reverse=True) / sorted(..., reverse=True): stable and
\* descending; keys[i] is the sort key of s[i].
RECURSIVE InsertDesc(_, _)
InsertDesc(sorted, x) ==
    IF sorted = <<>> THEN <<x>>
    ELSE IF Head(sorted).k >= x.k
         THEN <<Head(sorted)>> \o InsertDesc(Tail(sorted), x)
         ELSE <<x>> \o sorted

RECURSIVE SortDescFrom(_, _)
SortDescFrom(acc, rest) ==
    IF rest = <<>> THEN acc
    ELSE SortDescFrom(InsertDesc(acc, Head(rest)), Tail(rest))

SortDesc(s, keys) ==
    LET dec == [i \in DOMAIN s |-> [k |-> keys[i], v |-> s[i]]]
        res == SortDescFrom(<<>>, dec)
    IN [i \in DOMAIN res |-> res[i].v]

\* ---- cosine_similarity (utils/similarity.py) ------------------------------
Dot(v1, v2) == SumSeq([i \in DOMAIN v1 |-> v1[i] * v2[i]])

NormSq(v) == Dot(v, v)

\* mutant: the similarity is returned unclipped
Clip01_None(x) == x

\* np.clip(similarity, 0.0, 1.0)
Clip01(x) == Max(0, Min(Scale, x))

\* np.dot(vec1, vec2) / (vec1_norm * vec2_norm) in fixed point
RawCosine(v1, v2) ==
    (Dot(v1, v2) * Scale * Scale) \div ISqrt(NormSq(v1) * NormSq(v2) * Scale * Scale)

\* A None argument makes np.linalg.norm raise and a shape mismatch makes
\* np.dot raise; both land in "except Exception: return 0.0".
cosine_similarity(vec1, vec2) ==
    IF vec1 = NoneVal \/ vec2 = NoneVal THEN 0
    ELSE IF NormSq(vec1) = 0 \/ NormSq(vec2) = 0 THEN 0
    ELSE IF Len(vec1) # Len(vec2) THEN 0
    ELSE Clip01(RawCosine(vec1, vec2))

\* ---- the stored data ------------------------------------------------------
NodeIds == {"n1", "n2", "n3", "n4", "n5"}

MemoryIds == {"m1", "m2", "m3", "m4"}

NodeTypes == {"ENTITY", "EVENT", "FACT"}

Edge(s, t, ty, imp) == [source_id |-> s, target_id |-> t, edge_type |-> ty, importance |-> imp]

\* m1 holds a cycle n1-n2-n3 and a self loop on n2; m2 shares n3 with m1; m4
\* is a second memory about the same two nodes and the same edge as m2; m3 is
\* a single isolated node, created after the earlier clock reading.
SampleMemories ==
    [m \in MemoryIds |->
        CASE m = "m1" ->
               [id |-> "m1", nodes |-> <<"n1", "n2", "n3">>,
                edges |-> << Edge("n1", "n2", "CAUSALITY", 1000),
                             Edge("n2", "n3", "RELATION", 1000),
                             Edge("n3", "n1", "REFERENCE", 500),
                             Edge("n2", "n2", "TEMPORAL", 1000) >>,
                importance |-> 1000, created_at |-> 70]
          [] m = "m2" ->
               [id |-> "m2", nodes |-> <<"n3", "n4">>,
                edges |-> << Edge("n4", "n3", "ATTRIBUTE", 1000) >>,
                importance |-> 1000, created_at |-> 10]
          [] m = "m4" ->
               [id |-> "m4", nodes |-> <<"n4", "n3">>,
                edges |-> << Edge("n4", "n3", "ATTRIBUTE", 1000) >>,
                importance |-> 1000, created_at |-> 10]
          [] OTHER ->
               [id |-> "m3", nodes |-> <<"n5">>, edges |-> <<>>,
                importance |-> 1000, created_at |-> 85]]

\* GraphStore.node_to_memories of a store into which SampleMemories were added
IndexOf(mems) ==
    [n \in NodeIds |-> {m \in DOMAIN mems : n \in Range(mems[m].nodes)}]

\* The vector index: n1..n3 carry an embedding, the record of n4 came back
\* from the index without embeddings, n5 is not indexed.  memory_ids is the
\* "memory_ids" entry of the stored metadata (None: the key is absent).
SampleCollection ==
    [n \in {"n1", "n2", "n3", "n4"} |->
        CASE n = "n1" -> [node_type |-> "ENTITY", embedding |-> <<1, 0>>,
                          memory_ids |-> <<"m1">>]
          [] n = "n2" -> [node_type |-> "EVENT", embedding |-> <<1, 1>>,
                          memory_ids |-> NoneVal]
          [] n = "n3" -> [node_type |-> "FACT", embedding |-> <<-1, 0>>,
                          memory_ids |-> <<"m1", "m2", "m4">>]
          [] OTHER    -> [node_type |-> "ENTITY", embedding |-> NoneVal,
                          memory_ids |-> <<"m2", "m4">>]]

\* which accesses fail: node ids whose index lookup raises, whether a
\* similarity query of the index raises, memory ids whose graph-store lookup
\* raises
Outages ==
    { [vs |-> {}, query |-> FALSE, gs |-> {}],
      [vs |-> {"n2"}, query |-> FALSE, gs |-> {}],
      [vs |-> {}, query |-> FALSE, gs |-> {"m2"}],
      [vs |-> NodeIds, query |-> TRUE, gs |-> MemoryIds] }

\* outages of one store only: every access of that store fails
StoreOutages ==
    { [vs |-> NodeIds, query |-> TRUE, gs |-> {}],
      [vs |-> {}, query |-> FALSE, gs |-> MemoryIds] }

\* ---- PathExpansionConfig (path_expansion.py 61-94) --------------------------
EdgeTypeWeights ==
    [t \in {"REFERENCE", "ATTRIBUTE", "HAS_PROPERTY", "RELATION", "TEMPORAL", "DEFAULT"} |->
        CASE t = "REFERENCE" -> 1300
          [] t = "ATTRIBUTE" -> 1200
          [] t = "HAS_PROPERTY" -> 1200
          [] t = "RELATION" -> 900
          [] t = "TEMPORAL" -> 700
          [] OTHER -> 1000]

DefaultConfig ==
    [max_hops |-> 2, damping_factor |-> 850, max_branches_per_node |-> 10,
     path_merge_strategy |-> "weighted_geometric", pruning_threshold |-> 900,
     high_score_threshold |-> 700, medium_score_threshold |-> 400,
     max_active_paths |-> 1000, top_paths_retain |-> 500,
     edge_type_weights |-> EdgeTypeWeights,
     final_scoring_weights |-> [path_score |-> 500, importance |-> 300, recency |-> 200]]

\* a configuration a caller can hand to the constructor: the weights sum to
\* 1.3 and the pruning threshold is 1.5
BadConfig ==
    [DefaultConfig EXCEPT !.final_scoring_weights =
                              [path_score |-> 800, importance |-> 300, recency |-> 200],
                          !.pruning_threshold = 1500,
                          !.path_merge_strategy = "max_bonus"]

\* expand_depth = 1 of the retrieval tool mapped to max_hops
OneHopConfig == [DefaultConfig EXCEPT !.max_hops = 1]

Configs == {DefaultConfig, OneHopConfig, BadConfig}

\* ---- arguments of a retrieval call ----------------------------------------
SeedLists ==
    { <<>>,
      << <<"n1", 900>> >>,
      << <<"n5", 800>>, <<"n1", 900>> >>,
      << <<"n1", 1000>>, <<"n4", 1000>> >>,
      << <<"n1", 900>>, <<"n4", 600>> >>,
      << <<"n2", 1000>>, <<"n1", 1000>> >>,
      << <<"n1", 1000>>, <<"n2", 1000>>, <<"n4", 1000>> >> }

QueryEmbeddings == {NoneVal, <<1, 0>>}

PreferChoices == {{}, {"ENTITY"}}

\* readings of datetime.now(), in days
ClockReadings == {70, 100}

\* iteration orders of a set of memory ids (they depend on the hash seed)
SetOrders == { <<"m1", "m2", "m3", "m4">>, <<"m4", "m3", "m2", "m1">> }

Requests ==
    [initial_nodes : SeedLists, query_embedding : QueryEmbeddings, top_k : 0..MaxTopK]

\* ---- state -------------------------------------------------------------------
VARIABLES
    memories,            \* GraphStore: memory id -> Memory
    node_to_memories,    \* GraphStore: node id -> set of owning memory ids
    collection,          \* VectorStore: the index, node id -> stored record
    outage,              \* the lookups that raise in this environment
    config,              \* PathScoreExpansion.config
    constructed,         \* PathScoreExpansion.__init__ has returned
    prefer_node_types,   \* PathScoreExpansion.prefer_node_types (instance field)
    request,             \* (initial_nodes, query_embedding, top_k) being served
    runs,                \* the invocations of expand_with_path_scoring
    cur,                 \* the invocation that holds the event loop, 0 if none
    semantic,            \* the call of expand_memories_with_semantic_filter
    search,              \* the call of MemoryTools.search_memories
    vs_call,             \* the last operation called on the VectorStore
    dedup,               \* the call of deduplicate_memories_by_similarity
    create               \* the last call of MemoryTools.create_memory

vars == <<memories, node_to_memories, collection, outage, config, constructed,
          prefer_node_types, request, runs, cur, semantic, search, vs_call, dedup,
          create>>

storeVars == <<memories, node_to_memories, collection, outage>>

callVars == <<semantic, search, vs_call, dedup, create>>

pathVars == <<config, constructed, prefer_node_types, runs, cur>>

IdleRun ==
    [pc |-> "idle", prefer |-> {}, ord |-> <<>>, now |-> 0,
     arena |-> <<>>, active_paths |-> <<>>, next_paths |-> <<>>,
     best_score_to_node |-> <<>>, hop |-> 0, idx |-> 1,
     gs_accessed |-> FALSE, vs_accessed |-> FALSE, scored |-> <<>>,
     outcome |-> "none", result |-> <<>>]

IdleCall == [pc |-> "idle", args |-> <<>>, gs_accessed |-> FALSE, vs_accessed |-> FALSE,
             outcome |-> "none", swallowed |-> FALSE, reaches |-> <<>>, result |-> <<>>]

NoVsCall == [op |-> "none", ids |-> <<>>, index_raised |-> FALSE, outcome |-> "none",
             value |-> <<>>]

NoDedup == [pc |-> "idle", memories |-> <<>>, similarity_threshold |-> 0, keep_top_n |-> NoneVal,
            groups |-> <<>>, merged |-> <<>>, output |-> <<>>, extras |-> <<>>]

NoCreate == [pc |-> "idle", memory_id |-> "", success |-> FALSE, index_raised |-> FALSE,
             save_raised |-> FALSE, indexed |-> {}]

InitIn(outages) ==
    /\ memories = SampleMemories
    /\ node_to_memories = IndexOf(SampleMemories)
    /\ collection = SampleCollection
    /\ outage \in outages
    /\ config = DefaultConfig
    /\ constructed = FALSE
    /\ prefer_node_types = {}
    /\ request \in Requests
    /\ runs = [r \in Runs |-> IdleRun]
    /\ cur = 0
    /\ semantic = IdleCall
    /\ search = IdleCall
    /\ vs_call = NoVsCall
    /\ dedup = NoDedup
    /\ create = NoCreate

Init == InitIn(Outages)

\* ---- the stores as the expansion reads them ---------------------------------
NoNodeData == [found |-> FALSE, node_type |-> "", embedding |-> NoneVal]

\* VectorStore.get_node_by_id (vector_store.py 209-236): an exception of the
\* index is logged and None is returned, like for an id that is not indexed.
get_node_by_id(node_id) ==
    IF node_id \in outage.vs THEN NoNodeData
    ELSE IF node_id \in DOMAIN collection
         THEN [found |-> TRUE, node_type |-> collection[node_id].node_type,
               embedding |-> collection[node_id].embedding]
         ELSE NoNodeData

\* GraphStore.get_memory_by_id: the Memory, or nothing for an unknown id; the
\* lookup raises for the ids of outage.gs.
MemoryLookupRaises(memory_id) == memory_id \in outage.gs

MemoryKnown(memory_id) == memory_id \in DOMAIN memories

\* iteration over a set of memory ids, in the order this process iterates sets
IterSet(S, ord) == SelectSeq(ord, LAMBDA m : m \in S)

OwnersOf(node_id) ==
    IF node_id \in DOMAIN node_to_memories THEN node_to_memories[node_id] ELSE {}

\* ---- Path (path_expansion.py 36-58) -----------------------------------------
NoParent == 0

NewPath(nodes, edges, score, depth, parent, is_merged, merged_from) ==
    [nodes |-> nodes, edges |-> edges, score |-> score, depth |-> depth,
     parent |-> parent, is_merged |-> is_merged, merged_from |-> merged_from]

get_leaf_node(path) == path.nodes[Len(path.nodes)]

\* mutant: only the current leaf is compared
contains_node_LeafOnly(path, node_id) == node_id = path.nodes[Len(path.nodes)]

contains_node(path, node_id) == node_id \in Range(path.nodes)

\* ---- scoring helpers --------------------------------------------------------
\* _get_edge_weight (340-358)
EdgeTypeWeight(cfg, edge_type) ==
    IF edge_type \in DOMAIN cfg.edge_type_weights
    THEN cfg.edge_type_weights[edge_type]
    ELSE cfg.edge_type_weights["DEFAULT"]

get_edge_weight(cfg, edge) ==
    (edge.importance * EdgeTypeWeight(cfg, edge.edge_type)) \div Scale

\* base_score of _get_node_score (374-382)
BaseNodeScore(node_data, query_embedding) ==
    IF query_embedding = NoneVal THEN 500
    ELSE IF ~node_data.found THEN 300
    ELSE Max(0, Min(Scale, cosine_similarity(query_embedding, node_data.embedding)))

\* the preference bonus of _get_node_score (384-392) applies
NodeBonusApplies(node_data, prefer) ==
    /\ prefer # {}
    /\ node_data.found
    /\ node_data.node_type \in prefer

\* _get_node_score (360-394); prefer is the instance field at this moment
get_node_score(node_id, query_embedding, prefer) ==
    LET node_data == get_node_by_id(node_id)
        base_score == BaseNodeScore(node_data, query_embedding)
    IN IF NodeBonusApplies(node_data, prefer)
       THEN base_score + (base_score * 200) \div Scale
       ELSE base_score

\* damping_factor ** depth
RECURSIVE Decay(_, _)
Decay(cfg, depth) ==
    IF depth = 0 THEN Scale
    ELSE (Decay(cfg, depth - 1) * cfg.damping_factor) \div Scale

\* _calculate_path_score (396-420)
calculate_path_score(cfg, old_score, edge_weight, node_score, depth) ==
    LET decay == Decay(cfg, depth)
        propagated_score == (((old_score * edge_weight) \div Scale) * decay) \div Scale
        fresh_score == (node_score * (Scale - decay)) \div Scale
    IN propagated_score + fresh_score

\* mutant: every path gets the cap of a high-scoring path
calculate_max_branches_High(cfg, path_score) == (cfg.max_branches_per_node * 3) \div 2

\* _calculate_max_branches (422-437)
calculate_max_branches(cfg, path_score) ==
    IF path_score > cfg.high_score_threshold
    THEN (cfg.max_branches_per_node * 3) \div 2
    ELSE IF path_score > cfg.medium_score_threshold
         THEN cfg.max_branches_per_node
         ELSE cfg.max_branches_per_node \div 2

\* _merge_score (478-497)
merge_score(cfg, score1, score2) ==
    IF cfg.path_merge_strategy = "weighted_geometric"
    THEN (ISqrt(score1 * score2) * 1200) \div Scale
    ELSE IF cfg.path_merge_strategy = "max_bonus"
         THEN (Max(score1, score2) * 1300) \div Scale
         ELSE (((score1 + score2) \div 2) * 1150) \div Scale

\* ---- _get_sorted_neighbor_edges (311-338) -----------------------------------
EdgeKey(e) == <<e.source_id, e.target_id, e.edge_type>>

EdgesTouching(memory, node_id) ==
    SelectSeq(memory.edges, LAMBDA e : e.source_id = node_id \/ e.target_id = node_id)

\* the loop over the owning memories; raised as soon as a lookup raises
RECURSIVE GatherEdges(_, _, _)
GatherEdges(node_id, mids, acc) ==
    IF mids = <<>> THEN [raised |-> FALSE, edges |-> acc]
    ELSE IF MemoryLookupRaises(Head(mids)) THEN [raised |-> TRUE, edges |-> <<>>]
    ELSE IF MemoryKnown(Head(mids))
         THEN GatherEdges(node_id, Tail(mids),
                          acc \o EdgesTouching(memories[Head(mids)], node_id))
         ELSE GatherEdges(node_id, Tail(mids), acc)

\* list({key(e): e for e in edges}.values()): first position, last value
RECURSIVE DedupEdges(_, _)
DedupEdges(edges, acc) ==
    IF edges = <<>> THEN acc
    ELSE LET e == Head(edges)
             hit == {i \in DOMAIN acc : EdgeKey(acc[i]) = EdgeKey(e)}
         IN IF hit = {}
            THEN DedupEdges(Tail(edges), Append(acc, e))
            ELSE DedupEdges(Tail(edges),
                            [i \in DOMAIN acc |-> IF i \in hit THEN e ELSE acc[i]])

get_sorted_neighbor_edges(cfg, node_id, ord) ==
    LET gathered == GatherEdges(node_id, IterSet(OwnersOf(node_id), ord), <<>>)
        unique_edges == DedupEdges(gathered.edges, <<>>)
    IN [raised |-> gathered.raised,
        edges |-> SortDesc(unique_edges,
                          [i \in DOMAIN unique_edges |-> get_edge_weight(cfg, unique_edges[i])])]

\* ---- one candidate hop (188-236) --------------------------------------------
\* _try_merge_paths (439-476): position in existing_paths of the first path
\* that ends at the endpoint and is not merged itself, 0 if there is none
MergePartner(arena, existing_paths, endpoint) ==
    LET hits == {i \in DOMAIN existing_paths :
                    /\ get_leaf_node(arena[existing_paths[i]]) = endpoint
                    /\ ~arena[existing_paths[i]].is_merged}
    IN IF hits = {} THEN 0 ELSE CHOOSE i \in hits : \A j \in hits : i <= j

RemoveAt(s, i) == SubSeq(s, 1, i - 1) \o SubSeq(s, i + 1, Len(s))

\* the pruning test of lines 207-210
Pruned(cfg, best, next_node, new_score) ==
    /\ next_node \in DOMAIN best
    /\ new_score * Scale < best[next_node] * cfg.pruning_threshold

BestAfter(best, next_node, new_score) ==
    [n \in DOMAIN best \cup {next_node} |->
        IF n = next_node
        THEN Max(IF n \in DOMAIN best THEN best[n] ELSE 0, new_score)
        ELSE best[n]]

\* The body of "for edge in neighbor_edges[:max_branches]" for one edge.
\* st = [arena, next_paths, best, branch_count, vs_accessed]
ExpandEdge(cfg, st, pidx, edge, hop, query_embedding, prefer) ==
    LET path == st.arena[pidx]
        current_node == get_leaf_node(path)
        next_node == IF edge.source_id = current_node THEN edge.target_id ELSE edge.source_id
        edge_weight == get_edge_weight(cfg, edge)
        node_score == get_node_score(next_node, query_embedding, prefer)
        new_score == calculate_path_score(cfg, path.score, edge_weight, node_score, hop + 1)
        new_idx == Len(st.arena) + 1
        new_path == NewPath(Append(path.nodes, next_node), Append(path.edges, edge),
                            new_score, hop + 1, pidx, FALSE, <<>>)
        partner == MergePartner(st.arena, st.next_paths, next_node)
        existing == st.arena[st.next_paths[partner]]
        merged_path == NewPath(new_path.nodes, new_path.edges,
                               merge_score(cfg, new_score, existing.score),
                               new_path.depth, new_path.parent, TRUE,
                               <<new_idx, st.next_paths[partner]>>)
    IN IF contains_node(path, next_node) THEN st
       ELSE IF Pruned(cfg, st.best, next_node, new_score)
            THEN [st EXCEPT !.vs_accessed = TRUE]
            ELSE IF partner # 0
                 THEN [arena |-> st.arena \o <<new_path, merged_path>>,
                       next_paths |-> Append(RemoveAt(st.next_paths, partner), new_idx + 1),
                       best |-> BestAfter(st.best, next_node, new_score),
                       branch_count |-> st.branch_count + 1,
                       vs_accessed |-> TRUE]
                 ELSE [arena |-> Append(st.arena, new_path),
                       next_paths |-> Append(st.next_paths, new_idx),
                       best |-> BestAfter(st.best, next_node, new_score),
                       branch_count |-> st.branch_count + 1,
                       vs_accessed |-> TRUE]

\* the loop over neighbor_edges[:max_branches] with its break
RECURSIVE ExpandEdges(_, _, _, _, _, _, _, _)
ExpandEdges(cfg, st, pidx, edges, max_branches, hop, query_embedding, prefer) ==
    IF edges = <<>> \/ (st.branch_count > 0 /\ st.branch_count >= max_branches) THEN st
    ELSE ExpandEdges(cfg, ExpandEdge(cfg, st, pidx, Head(edges), hop, query_embedding, prefer),
                     pidx, Tail(edges), max_branches, hop, query_embedding, prefer)

\* ---- after the hop loop (280-293) -------------------------------------------
\* _extract_leaf_paths (499-521): the paths of all_paths that are the parent
\* of no path of all_paths
extract_leaf_paths(arena, all_paths) ==
    LET children_map == {arena[all_paths[i]].parent : i \in DOMAIN all_paths} \ {NoParent}
    IN SelectSeq(all_paths, LAMBDA p : p \notin children_map)

MemoryIdsInPath(path) == UNION {OwnersOf(n) : n \in Range(path.nodes)}

\* _map_paths_to_memories (523-560), as the insertion-ordered dict
\* <<[mem_id, paths]>>; raised if a memory lookup raises
AppendPathAt(entries, hit, p) ==
    [i \in DOMAIN entries |->
        IF i \in hit
        THEN [mem_id |-> entries[i].mem_id, paths |-> Append(entries[i].paths, p)]
        ELSE entries[i]]

RECURSIVE AddPathToMemories(_, _, _)
AddPathToMemories(acc, p, mids) ==
    IF acc.raised \/ mids = <<>> THEN acc
    ELSE LET mem_id == Head(mids)
             hit == {i \in DOMAIN acc.entries : acc.entries[i].mem_id = mem_id}
         IN IF MemoryLookupRaises(mem_id) THEN [raised |-> TRUE, entries |-> <<>>]
            ELSE IF ~MemoryKnown(mem_id) THEN AddPathToMemories(acc, p, Tail(mids))
            ELSE IF hit = {}
                 THEN AddPathToMemories(
                          [raised |-> FALSE,
                           entries |-> Append(acc.entries, [mem_id |-> mem_id, paths |-> <<p>>])],
                          p, Tail(mids))
                 ELSE AddPathToMemories(
                          [raised |-> FALSE, entries |-> AppendPathAt(acc.entries, hit, p)],
                          p, Tail(mids))

RECURSIVE MapPaths(_, _, _, _)
MapPaths(acc, arena, paths, ord) ==
    IF acc.raised \/ paths = <<>> THEN acc
    ELSE MapPaths(AddPathToMemories(acc, Head(paths),
                                    IterSet(MemoryIdsInPath(arena[Head(paths)]), ord)),
                  arena, Tail(paths), ord)

map_paths_to_memories(arena, paths, ord) ==
    MapPaths([raised |-> FALSE, entries |-> <<>>], arena, paths, ord)

\* _aggregate_path_scores (626-647); scores is the list of the paths' scores
aggregate_path_scores(scores) ==
    IF scores = <<>> THEN 0
    ELSE LET total_score == SumSeq(scores)
             top3 == Take(SortDesc(scores, scores), 3)
             avg_top == SumSeq(top3) \div Len(top3)
         IN (total_score * 400) \div Scale + (avg_top * 600) \div Scale

\* _calculate_recency (649-673): 1 / (1 + age_days / 30), now read from the clock
calculate_recency(memory, now) ==
    LET age_days == now - memory.created_at
    IN (Scale * 30) \div (30 + age_days)

\* number of nodes of the memory whose stored type is preferred (602-610)
MatchedCount(memory, prefer) ==
    Cardinality({i \in DOMAIN memory.nodes :
                    LET node_data == get_node_by_id(memory.nodes[i])
                    IN node_data.found /\ node_data.node_type \in prefer})

BaseFinalScore(cfg, arena, entry, now) ==
    LET memory == memories[entry.mem_id]
        path_score == aggregate_path_scores([i \in DOMAIN entry.paths |-> arena[entry.paths[i]].score])
        weights == cfg.final_scoring_weights
    IN (path_score * weights.path_score) \div Scale
       + (memory.importance * weights.importance) \div Scale
       + (calculate_recency(memory, now) * weights.recency) \div Scale

TypeBonus(base_final_score, memory, prefer) ==
    IF prefer # {} /\ memory.nodes # <<>> /\ MatchedCount(memory, prefer) > 0
    THEN (base_final_score * MatchedCount(memory, prefer) * 100) \div (Len(memory.nodes) * Scale)
    ELSE 0

\* _final_scoring (562-624): one (Memory, final_score, paths) per dict entry
final_scoring(cfg, arena, memory_paths, now, prefer) ==
    [i \in DOMAIN memory_paths |->
        LET entry == memory_paths[i]
            base_final_score == BaseFinalScore(cfg, arena, entry, now)
        IN [memory |-> entry.mem_id,
            final_score |-> base_final_score + TypeBonus(base_final_score, memories[entry.mem_id], prefer),
            paths |-> entry.paths]]

\* mutant: the list is cut without being sorted
RankAndCut_Unsorted(scored_memories, top_k) == Take(scored_memories, top_k)

\* scored_memories.sort(key=lambda x: x[1], reverse=True); [:top_k]
RankAndCut(scored_memories, top_k) ==
    Take(SortDesc(scored_memories,
                  [i \in DOMAIN scored_memories |-> scored_memories[i].final_score]), top_k)

\* ---- PathScoreExpansion.__init__ (100-123) ----------------------------------
Construct(cfg) ==
    /\ ~constructed
    /\ constructed' = TRUE
    /\ config' = cfg
    /\ prefer_node_types' = {}
    /\ UNCHANGED <<storeVars, request, runs, cur, callVars>>

\* ---- expand_with_path_scoring as steps between suspension points ------------
SeedPaths(initial_nodes) ==
    [i \in DOMAIN initial_nodes |->
        NewPath(<<initial_nodes[i][1]>>, <<>>, initial_nodes[i][2], 0, NoParent, FALSE, <<>>)]

\* mutant: the score map lives on the instance and is never reset, so a call
\* starts from what the first call left in it
SeedBest_OnInstance(initial_nodes) ==
    LET left == runs[1].best_score_to_node
        seeded == {initial_nodes[i][1] : i \in DOMAIN initial_nodes}
    IN [n \in DOMAIN left \cup seeded |->
           IF n \in seeded
           THEN initial_nodes[CHOOSE i \in DOMAIN initial_nodes :
                                 /\ initial_nodes[i][1] = n
                                 /\ \A j \in DOMAIN initial_nodes :
                                        initial_nodes[j][1] = n => j <= i][2]
           ELSE left[n]]

\* best_score_to_node after the seeding loop: the last listed score wins
SeedBest(initial_nodes) ==
    [n \in {initial_nodes[i][1] : i \in DOMAIN initial_nodes} |->
        LET last == CHOOSE i \in DOMAIN initial_nodes :
                        /\ initial_nodes[i][1] = n
                        /\ \A j \in DOMAIN initial_nodes : initial_nodes[j][1] = n => j <= i
        IN initial_nodes[last][2]]

\* mutant: the early return is missing
EmptyInput_Never(initial_nodes) == FALSE

\* lines 146-148: the early return on empty initial_nodes
EmptyInput(initial_nodes) == initial_nodes = <<>>

\* lines 144-164, up to the hop loop
StartRun(rs, cfg, initial_nodes, prefer, ord) ==
    IF EmptyInput(initial_nodes)
    THEN [rs EXCEPT !.pc = "done", !.prefer = prefer, !.ord = ord,
                    !.outcome = "returned", !.result = <<>>]
    ELSE [rs EXCEPT !.pc = IF cfg.max_hops > 0 THEN "hop" ELSE "final",
                    !.prefer = prefer, !.ord = ord,
                    !.arena = SeedPaths(initial_nodes),
                    !.active_paths = [i \in DOMAIN initial_nodes |-> i],
                    !.best_score_to_node = SeedBest(initial_nodes),
                    !.hop = 0, !.idx = 1]

\* lines 238-240: "if len(next_paths) % 100 == 0: await asyncio.sleep(0)"
YieldsAfterPath(next_paths) == Len(next_paths) % 100 = 0

\* One turn of "for path in active_paths" (176-240); prefer is the instance
\* field as _get_node_score reads it during this turn.
ExpandPathRun(rs, cfg, query_embedding, prefer) ==
    LET pidx == rs.active_paths[rs.idx]
        path == rs.arena[pidx]
        neighbor_edges == get_sorted_neighbor_edges(cfg, get_leaf_node(path), rs.ord)
        max_branches == calculate_max_branches(cfg, path.score)
        st0 == [arena |-> rs.arena, next_paths |-> rs.next_paths,
                best |-> rs.best_score_to_node, branch_count |-> 0,
                vs_accessed |-> rs.vs_accessed]
        st == ExpandEdges(cfg, st0, pidx, Take(neighbor_edges.edges, max_branches),
                          max_branches, rs.hop, query_embedding, prefer)
    IN IF neighbor_edges.raised
       THEN [rs EXCEPT !.pc = "done", !.outcome = "raised", !.gs_accessed = TRUE]
       ELSE [rs EXCEPT !.arena = st.arena, !.next_paths = st.next_paths,
                       !.best_score_to_node = st.best,
                       !.vs_accessed = st.vs_accessed,
                       !.gs_accessed = TRUE,
                       !.idx = rs.idx + 1,
                       !.pc = IF YieldsAfterPath(st.next_paths) THEN "sleep" ELSE "hop"]

\* mutant: the valve never opens
RetainTop_Off(cfg, arena, next_paths) == next_paths

\* lines 242-250: the anti-explosion valve
RetainTop(cfg, arena, next_paths) ==
    IF Len(next_paths) > cfg.max_active_paths
    THEN Take(SortDesc(next_paths, [i \in DOMAIN next_paths |-> arena[next_paths[i]].score]),
              cfg.top_paths_retain)
    ELSE next_paths

\* mutant: the loop goes on until a hop produces no path
EndHopRun_Unbounded(rs, cfg) ==
    LET kept == RetainTop(cfg, rs.arena, rs.next_paths)
    IN [rs EXCEPT !.active_paths = kept, !.next_paths = <<>>,
                  !.hop = rs.hop + 1, !.idx = 1,
                  !.pc = IF kept = <<>> THEN "final" ELSE "hop"]

\* The end of one iteration of the hop loop (242-278).
EndHopRun(rs, cfg) ==
    LET kept == RetainTop(cfg, rs.arena, rs.next_paths)
        stop == kept = <<>> \/ rs.hop + 1 >= cfg.max_hops
    IN [rs EXCEPT !.active_paths = kept, !.next_paths = <<>>,
                  !.hop = rs.hop + 1, !.idx = 1,
                  !.pc = IF stop THEN "final" ELSE "hop"]

\* Steps 3-6 (280-309): leaf extraction, mapping, final scoring, top k; now is
\* the clock reading of _calculate_recency, prefer the instance field.
FinishRun(rs, cfg, top_k, now, prefer) ==
    LET leaf_paths == extract_leaf_paths(rs.arena, rs.active_paths)
        memory_paths == map_paths_to_memories(rs.arena, leaf_paths, rs.ord)
        scored_memories == final_scoring(cfg, rs.arena, memory_paths.entries, now, prefer)
    IN IF memory_paths.raised
       THEN [rs EXCEPT !.pc = "done", !.outcome = "raised", !.now = now,
                       !.gs_accessed = TRUE]
       ELSE [rs EXCEPT !.pc = "done", !.outcome = "returned", !.now = now,
                       !.gs_accessed = (@ \/ leaf_paths # <<>>),
                       !.vs_accessed = (@ \/ (prefer # {} /\ memory_paths.entries # <<>>)),
                       !.scored = scored_memories,
                       !.result = RankAndCut(scored_memories, top_k)]

\* ---- the actions ----------------------------------------------------------------
\* invocation r is called while no invocation is running
Start(r, prefer, ord) ==
    /\ constructed
    /\ cur = 0
    /\ runs[r].pc = "idle"
    /\ \A q \in Runs : q < r => runs[q].pc # "idle"
    /\ runs' = [runs EXCEPT ![r] = StartRun(@, config, request.initial_nodes, prefer, ord)]
    /\ prefer_node_types' = IF EmptyInput(request.initial_nodes)
                            THEN prefer_node_types ELSE prefer
    /\ cur' = IF runs'[r].pc = "done" THEN 0 ELSE r
    /\ UNCHANGED <<storeVars, config, constructed, request, callVars>>

\* mutant: the edge list of the memory itself is sorted by weight
EdgesAfterGather_InPlace(cfg, edges) ==
    SortDesc(edges, [i \in DOMAIN edges |-> get_edge_weight(cfg, edges[i])])

\* lines 328-336: the edges are appended to a new list, the de-duplicated copy
\* of that list is sorted; memory.edges is left as it is
EdgesAfterGather(cfg, edges) == edges

\* the memories of the graph store after _get_sorted_neighbor_edges(node_id)
MemoriesAfterGather(cfg, mems, node_id) ==
    [m \in DOMAIN mems |->
        IF m \in OwnersOf(node_id)
        THEN [mems[m] EXCEPT !.edges = EdgesAfterGather(cfg, @)]
        ELSE mems[m]]

ExpandPath(r) ==
    /\ cur = r
    /\ runs[r].pc = "hop"
    /\ runs[r].idx <= Len(runs[r].active_paths)
    /\ runs' = [runs EXCEPT ![r] =
                   ExpandPathRun(@, config, request.query_embedding, prefer_node_types)]
    /\ memories' = MemoriesAfterGather(config, memories,
                        get_leaf_node(runs[r].arena[runs[r].active_paths[runs[r].idx]]))
    /\ cur' = IF runs'[r].pc = "hop" THEN r ELSE 0
    /\ UNCHANGED <<node_to_memories, collection, outage, config, constructed,
                   prefer_node_types, request, callVars>>

\* the caller cancels the coroutine: CancelledError is raised out of
\* "await asyncio.sleep(0)" (line 240) and nothing catches it; the paths
\* computed so far are dropped with the frame
Cancel(r) ==
    /\ cur = 0
    /\ runs[r].pc = "sleep"
    /\ runs' = [runs EXCEPT ![r] =
                   [IdleRun EXCEPT !.pc = "done", !.outcome = "cancelled",
                                   !.prefer = runs[r].prefer, !.ord = runs[r].ord,
                                   !.gs_accessed = runs[r].gs_accessed,
                                   !.vs_accessed = runs[r].vs_accessed]]
    /\ UNCHANGED <<storeVars, config, constructed, prefer_node_types, request, cur, callVars>>

\* the event loop resumes an invocation suspended in asyncio.sleep(0)
Resume(r) ==
    /\ cur = 0
    /\ runs[r].pc = "sleep"
    /\ runs' = [runs EXCEPT ![r] = [@ EXCEPT !.pc = "hop"]]
    /\ cur' = r
    /\ UNCHANGED <<storeVars, config, constructed, prefer_node_types, request, callVars>>

EndHop(r) ==
    /\ cur = r
    /\ runs[r].pc = "hop"
    /\ runs[r].idx > Len(runs[r].active_paths)
    /\ runs' = [runs EXCEPT ![r] = EndHopRun(@, config)]
    /\ UNCHANGED <<storeVars, config, constructed, prefer_node_types, request, cur, callVars>>

Finish(r, now) ==
    /\ cur = r
    /\ runs[r].pc = "final"
    /\ runs' = [runs EXCEPT ![r] =
                   FinishRun(@, config, request.top_k, now, prefer_node_types)]
    /\ cur' = 0
    /\ UNCHANGED <<storeVars, config, constructed, prefer_node_types, request, callVars>>

Next ==
    \/ \E cfg \in Configs : Construct(cfg)
    \/ \E r \in Runs, prefer \in PreferChoices, ord \in SetOrders : Start(r, prefer, ord)
    \/ \E r \in Runs : ExpandPath(r)
    \/ \E r \in Runs : Resume(r)
    \/ \E r \in Runs : EndHop(r)
    \/ \E r \in Runs, now \in ClockReadings : Finish(r, now)

Spec == Init /\ [][Next]_vars

\* one invocation that its caller may cancel while it is suspended
NextCancel ==
    \/ \E cfg \in Configs : Construct(cfg)
    \/ \E prefer \in PreferChoices, ord \in SetOrders : Start(1, prefer, ord)
    \/ ExpandPath(1)
    \/ Resume(1)
    \/ EndHop(1)
    \/ \E now \in ClockReadings : Finish(1, now)
    \/ Cancel(1)

SpecCancel == Init /\ [][NextCancel]_vars

\* ---- one invocation under configurations that bind the hop loop ------------------
\* max_hops = 0: the hop loop is not entered
ZeroHopConfig == [DefaultConfig EXCEPT !.max_hops = 0]

\* the anti-explosion valve opens above two paths and keeps one
ValveConfig == [DefaultConfig EXCEPT !.max_active_paths = 2, !.top_paths_retain = 1]

\* two branches per node: the dynamic cap is 3, 2 or 1
NarrowConfig == [DefaultConfig EXCEPT !.max_branches_per_node = 2]

HopConfigs == {DefaultConfig, ZeroHopConfig, ValveConfig, NarrowConfig}

\* seed lists: one node with a low, a medium and a high score, an isolated
\* node, a list and its reverse, three seeds around n3, one node listed twice
HopSeedLists ==
    { << <<"n3", 300>> >>,
      << <<"n3", 600>> >>,
      << <<"n3", 1000>> >>,
      << <<"n5", 800>> >>,
      << <<"n1", 1000>>, <<"n4", 1000>> >>,
      << <<"n4", 1000>>, <<"n1", 1000>> >>,
      << <<"n1", 1000>>, <<"n2", 1000>>, <<"n4", 1000>> >>,
      << <<"n1", 900>>, <<"n1", 500>> >> }

HopRequests ==
    [initial_nodes : HopSeedLists, query_embedding : QueryEmbeddings, top_k : 0..MaxTopK]

InitHops ==
    /\ memories = SampleMemories
    /\ node_to_memories = IndexOf(SampleMemories)
    /\ collection = SampleCollection
    /\ outage = [vs |-> {}, query |-> FALSE, gs |-> {}]
    /\ config = DefaultConfig
    /\ constructed = FALSE
    /\ prefer_node_types = {}
    /\ request \in HopRequests
    /\ runs = [r \in Runs |-> IdleRun]
    /\ cur = 0
    /\ semantic = IdleCall
    /\ search = IdleCall
    /\ vs_call = NoVsCall
    /\ dedup = NoDedup
    /\ create = NoCreate

NextHops ==
    \/ \E cfg \in HopConfigs : Construct(cfg)
    \/ \E prefer \in PreferChoices, ord \in SetOrders : Start(1, prefer, ord)
    \/ ExpandPath(1)
    \/ Resume(1)
    \/ EndHop(1)
    \/ \E now \in ClockReadings : Finish(1, now)

SpecHops == InitHops /\ [][NextHops]_vars

\* ---- an invocation running alone ------------------------------------------------
\* The same steps with nothing else scheduled: the instance field keeps the
\* value this invocation stored in it.
RECURSIVE RunAlone(_, _, _, _, _)
RunAlone(rs, cfg, req, prefer, now) ==
    IF rs.pc = "done" THEN rs
    ELSE IF rs.pc = "sleep"
         THEN RunAlone([rs EXCEPT !.pc = "hop"], cfg, req, prefer, now)
    ELSE IF rs.pc = "final"
         THEN RunAlone(FinishRun(rs, cfg, req.top_k, now, prefer), cfg, req, prefer, now)
    ELSE IF rs.idx <= Len(rs.active_paths)
         THEN RunAlone(ExpandPathRun(rs, cfg, req.query_embedding, prefer), cfg, req, prefer, now)
         ELSE RunAlone(EndHopRun(rs, cfg), cfg, req, prefer, now)

ResultAlone(cfg, req, prefer, ord, now) ==
    RunAlone(StartRun(IdleRun, cfg, req.initial_nodes, prefer, ord), cfg, req, prefer, now)

\* ---- the graph as expand_memories_with_semantic_filter reads it ----------------
\* the order in which the memories were added to the GraphStore
AddOrder == <<"m1", "m2", "m3", "m4">>

\* MemoryNode.has_embedding(): the node object carries a vector
NodesWithEmbedding == {"n1", "n2", "n3", "n4"}

has_embedding(node_id) == node_id \in NodesWithEmbedding

\* the edges of graph_store.graph in insertion order
RECURSIVE GraphEdgesFrom(_)
GraphEdgesFrom(order) ==
    IF order = <<>> THEN <<>>
    ELSE (IF Head(order) \in DOMAIN memories THEN memories[Head(order)].edges ELSE <<>>)
         \o GraphEdgesFrom(Tail(order))

RECURSIVE DedupSeq(_, _)
DedupSeq(s, acc) ==
    IF s = <<>> THEN acc
    ELSE DedupSeq(Tail(s), IF Head(s) \in Range(acc) THEN acc ELSE Append(acc, Head(s)))

\* graph_store.graph.neighbors(node_id): the successors of the node
graph_neighbors(node_id) ==
    LET out == SelectSeq(GraphEdgesFrom(AddOrder), LAMBDA e : e.source_id = node_id)
    IN DedupSeq([i \in DOMAIN out |-> out[i].target_id], <<>>)

\* graph_store.graph.nodes.get(node_id)["memory_ids"]
graph_memory_ids(node_id) == SelectSeq(AddOrder, LAMBDA m : m \in OwnersOf(node_id))

\* graph_store.graph.get_edge_data(a, b): the attributes of the edge a -> b, as
\* the last insertion left them, or None
get_edge_data(a, b) ==
    LET hits == SelectSeq(GraphEdgesFrom(AddOrder),
                          LAMBDA e : e.source_id = a /\ e.target_id = b)
    IN IF hits = <<>> THEN NoneVal ELSE hits[Len(hits)]

\* ---- expand_memories_with_semantic_filter (graph_expansion.py 21-153) ----------
\* lines 87-92
edge_importance(a, b) ==
    IF get_edge_data(a, b) = NoneVal THEN 500 ELSE get_edge_data(a, b).importance

\* lines 94-96: semantic_sim * 0.7 + edge_importance * 0.2 + depth_decay * 0.1
relevance_score(semantic_sim, importance, depth) ==
    (semantic_sim * 700) \div Scale + (importance * 200) \div Scale
        + ((Scale \div (depth + 1)) * 100) \div Scale

ExpandedIds(st) == {st.expanded[i].mem_id : i \in DOMAIN st.expanded}

\* lines 119-132: "for neighbor_mem_id in neighbor_memory_ids"; reaches keeps
\* every (memory, relevance) pair the loop is entered with
RECURSIVE ReachMemories(_, _, _)
ReachMemories(st, mids, score) ==
    IF mids = <<>> THEN st
    ELSE LET m == Head(mids)
             logged == [st EXCEPT !.reaches = Append(@, [mem_id |-> m, score |-> score])]
         IN IF m \in st.visited
            THEN ReachMemories(logged, Tail(mids), score)
            ELSE IF m \notin ExpandedIds(st)
                 THEN ReachMemories([logged EXCEPT !.expanded = Append(@, [mem_id |-> m, score |-> score]),
                                                   !.visited = @ \cup {m},
                                                   !.next_level = Append(@, m)],
                                    Tail(mids), score)
                 ELSE ReachMemories([logged EXCEPT !.expanded =
                                        [i \in DOMAIN @ |->
                                            IF @[i].mem_id = m
                                            THEN [@[i] EXCEPT !.score = Max(@, score)]
                                            ELSE @[i]]],
                                    Tail(mids), score)

\* mutant: no relevance score is too low
BelowThreshold_Never(score, semantic_threshold) == FALSE

\* lines 98-100: "if relevance_score < semantic_threshold: continue"
BelowThreshold(score, semantic_threshold) == score < semantic_threshold

\* lines 74-132: one neighbor of one node
VisitNeighbor(st, node_id, neighbor_id, depth, query_embedding, semantic_threshold) ==
    LET neighbor_vector_data == get_node_by_id(neighbor_id)
        semantic_sim == cosine_similarity(query_embedding, neighbor_vector_data.embedding)
        score == relevance_score(semantic_sim, edge_importance(node_id, neighbor_id), depth)
        seen == [st EXCEPT !.vs_accessed = TRUE]
    IN IF ~neighbor_vector_data.found \/ neighbor_vector_data.embedding = NoneVal THEN seen
       ELSE IF BelowThreshold(score, semantic_threshold) THEN seen
       ELSE ReachMemories(seen, graph_memory_ids(neighbor_id), score)

RECURSIVE VisitNeighbors(_, _, _, _, _, _)
VisitNeighbors(st, node_id, neighbors, depth, query_embedding, semantic_threshold) ==
    IF neighbors = <<>> THEN st
    ELSE VisitNeighbors(VisitNeighbor(st, node_id, Head(neighbors), depth,
                                      query_embedding, semantic_threshold),
                        node_id, Tail(neighbors), depth, query_embedding, semantic_threshold)

\* lines 64-72: "for node in memory.nodes"
RECURSIVE VisitNodes(_, _, _, _, _)
VisitNodes(st, nodes, depth, query_embedding, semantic_threshold) ==
    IF nodes = <<>> THEN st
    ELSE IF ~has_embedding(Head(nodes))
         THEN VisitNodes(st, Tail(nodes), depth, query_embedding, semantic_threshold)
         ELSE VisitNodes(VisitNeighbors(st, Head(nodes), graph_neighbors(Head(nodes)), depth,
                                        query_embedding, semantic_threshold),
                         Tail(nodes), depth, query_embedding, semantic_threshold)

\* lines 59-63: "for memory_id in current_level"; a raising lookup leaves the
\* loops for the handler on line 151
RECURSIVE VisitLevel(_, _, _, _, _)
VisitLevel(st, current_level, depth, query_embedding, semantic_threshold) ==
    IF current_level = <<>> \/ st.raised THEN st
    ELSE LET memory_id == Head(current_level)
             looked == [st EXCEPT !.gs_accessed = TRUE]
         IN IF MemoryLookupRaises(memory_id) THEN [looked EXCEPT !.raised = TRUE]
            ELSE IF ~MemoryKnown(memory_id)
                 THEN VisitLevel(looked, Tail(current_level), depth,
                                 query_embedding, semantic_threshold)
                 ELSE VisitLevel(VisitNodes(looked, memories[memory_id].nodes, depth,
                                            query_embedding, semantic_threshold),
                                 Tail(current_level), depth, query_embedding, semantic_threshold)

\* lines 59-138: "for depth in range(max_depth)"
RECURSIVE ExpandLevels(_, _, _, _, _, _, _)
ExpandLevels(st, current_level, depth, max_depth, query_embedding, semantic_threshold, max_expanded) ==
    IF depth >= max_depth THEN st
    ELSE LET after == VisitLevel([st EXCEPT !.next_level = <<>>], current_level, depth,
                                 query_embedding, semantic_threshold)
         IN IF after.raised THEN after
            ELSE IF after.next_level = <<>> \/ Len(after.expanded) >= max_expanded THEN after
            ELSE ExpandLevels(after, Take(after.next_level, max_expanded), depth + 1, max_depth,
                              query_embedding, semantic_threshold, max_expanded)

\* The whole function: the list it returns, and whether the list comes from
\* the handler "except Exception: ... return []".
expand_memories_with_semantic_filter(initial_memory_ids, query_embedding, max_depth, semantic_threshold, max_expanded) ==
    IF initial_memory_ids = <<>> \/ query_embedding = NoneVal
    THEN [IdleCall EXCEPT !.pc = "done", !.outcome = "returned"]
    ELSE LET st == ExpandLevels([visited |-> Range(initial_memory_ids), expanded |-> <<>>,
                                 next_level |-> <<>>, raised |-> FALSE, reaches |-> <<>>,
                                 gs_accessed |-> FALSE, vs_accessed |-> FALSE],
                                initial_memory_ids, 0, max_depth, query_embedding,
                                semantic_threshold, max_expanded)
             sorted_results == Take(SortDesc(st.expanded,
                                             [i \in DOMAIN st.expanded |-> st.expanded[i].score]),
                                    max_expanded)
         IN [IdleCall EXCEPT !.pc = "done", !.outcome = "returned",
                             !.gs_accessed = st.gs_accessed, !.vs_accessed = st.vs_accessed,
                             !.swallowed = st.raised, !.reaches = st.reaches,
                             !.result = IF st.raised THEN <<>> ELSE sorted_results]

\* ---- VectorStore.search_similar_nodes (vector_store.py 154-207) -----------------
\* the ids the index holds with a vector, in the order they were added
Searchable ==
    SelectSeq(<<"n1", "n2", "n3", "n4", "n5">>,
              LAMBDA n : n \in DOMAIN collection /\ collection[n].embedding # NoneVal)

\* similarity = 1.0 - distance, the distance being the cosine distance
SimilarityOf(query_embedding, node_id) ==
    Scale - (Scale - RawCosine(query_embedding, collection[node_id].embedding))

\* the (node_id, similarity, metadata) list, nearest first, or the exception
\* of the index re-raised (205-207)
search_similar_nodes(query_embedding, limit, min_similarity) ==
    IF outage.query THEN [raised |-> TRUE, nodes |-> <<>>]
    ELSE LET ids == Searchable
             nearest == Take(SortDesc(ids, [i \in DOMAIN ids |->
                                                SimilarityOf(query_embedding, ids[i])]), limit)
             hits == SelectSeq(nearest,
                               LAMBDA n : SimilarityOf(query_embedding, n) >= min_similarity)
         IN [raised |-> FALSE,
             nodes |-> [i \in DOMAIN hits |->
                           [node_id |-> hits[i],
                            similarity |-> SimilarityOf(query_embedding, hits[i]),
                            memory_ids |-> collection[hits[i]].memory_ids]]]

\* ---- MemoryTools.search_memories (memory_tools.py 419-508) -----------------------
\* lines 460-472: the set of memory ids named by the metadata of the hits
HitMemoryIds(similar_nodes) ==
    UNION {Range(similar_nodes[i].memory_ids) : i \in DOMAIN similar_nodes}

\* the dict the tool returns: success with the results, or the failure dict
\* built by the handler on lines 501-508
search_memories(query_embedding, top_k, ord) ==
    LET similar_nodes == search_similar_nodes(query_embedding, top_k * 2, 0)
        memory_ids == Take(IterSet(HitMemoryIds(similar_nodes.nodes), ord), top_k)
        found == SelectSeq(memory_ids, LAMBDA m : MemoryKnown(m))
    IN IF similar_nodes.raised
       THEN [IdleCall EXCEPT !.pc = "done", !.outcome = "failure", !.vs_accessed = TRUE]
       ELSE IF \E i \in DOMAIN memory_ids : MemoryLookupRaises(memory_ids[i])
            THEN [IdleCall EXCEPT !.pc = "done", !.outcome = "failure",
                                  !.vs_accessed = TRUE, !.gs_accessed = TRUE]
            ELSE [IdleCall EXCEPT !.pc = "done", !.outcome = "success",
                                  !.vs_accessed = TRUE, !.gs_accessed = (memory_ids # <<>>),
                                  !.result = found]

\* ---- the two calls as actions -------------------------------------------------------
SemanticThresholds == {300, 500}

InitialMemoryIds == { <<>>, <<"m2">>, <<"m3">> }

\* the embedding generator's output for the query text
GeneratedEmbeddings == { <<1, 0>>, <<0, 1>> }

\* expand_memories_with_semantic_filter called with the request's query vector;
\* it has no suspension point at which another coroutine runs
SemanticExpand(initial_memory_ids, semantic_threshold, max_depth, max_expanded) ==
    /\ cur = 0
    /\ semantic.pc = "idle"
    /\ semantic' = [expand_memories_with_semantic_filter(initial_memory_ids,
                        request.query_embedding, max_depth, semantic_threshold, max_expanded)
                    EXCEPT !.args = <<initial_memory_ids, semantic_threshold,
                                      max_depth, max_expanded>>]
    /\ UNCHANGED <<storeVars, pathVars, request, search, vs_call, dedup, create>>

SearchMemories(query_embedding, ord) ==
    /\ cur = 0
    /\ search.pc = "idle"
    /\ request.top_k > 0
    /\ search' = [search_memories(query_embedding, request.top_k, ord)
                  EXCEPT !.args = <<query_embedding>>]
    /\ UNCHANGED <<storeVars, pathVars, request, semantic, vs_call, dedup, create>>

\* the three retrieval calls, one invocation of each, in any environment
InitRetrieval == InitIn(Outages \cup StoreOutages)

NextRetrieval ==
    \/ \E cfg \in Configs : Construct(cfg)
    \/ \E prefer \in PreferChoices, ord \in SetOrders : Start(1, prefer, ord)
    \/ ExpandPath(1)
    \/ Resume(1)
    \/ EndHop(1)
    \/ \E now \in ClockReadings : Finish(1, now)
    \/ \E ids \in InitialMemoryIds, thr \in SemanticThresholds : SemanticExpand(ids, thr, 2, 20)
    \/ \E q \in GeneratedEmbeddings, ord \in SetOrders : SearchMemories(q, ord)

SpecRetrieval == InitRetrieval /\ [][NextRetrieval]_vars

\* ---- VectorStore operations (vector_store.py 80-273) ----------------------------
\* the MemoryNode objects a caller hands to the store; n5 carries no vector
MemoryNodeOf(node_id) ==
    CASE node_id = "n1" -> [id |-> "n1", node_type |-> "ENTITY", embedding |-> <<1, 0>>,
                            memory_ids |-> <<"m1">>]
      [] node_id = "n2" -> [id |-> "n2", node_type |-> "EVENT", embedding |-> <<1, 1>>,
                            memory_ids |-> NoneVal]
      [] node_id = "n3" -> [id |-> "n3", node_type |-> "FACT", embedding |-> <<-1, 0>>,
                            memory_ids |-> <<"m1", "m2", "m4">>]
      [] node_id = "n4" -> [id |-> "n4", node_type |-> "ENTITY", embedding |-> <<0, 1>>,
                            memory_ids |-> <<"m2", "m4">>]
      [] OTHER -> [id |-> node_id, node_type |-> "FACT", embedding |-> NoneVal,
                   memory_ids |-> NoneVal]

\* MemoryNode.has_embedding() on the object
node_has_embedding(node) == node.embedding # NoneVal

IdsOf(nodes) == [i \in DOMAIN nodes |-> nodes[i].id]

\* the index call raises: the index is unavailable for one of the ids, or
\* collection.add is handed the same id twice
IndexRaises(ids) == Range(ids) \cap outage.vs # {}

DuplicateIds(ids) == \E i, j \in DOMAIN ids : i # j /\ ids[i] = ids[j]

\* collection.add: records of ids the index already holds are kept
RECURSIVE IndexAdd(_, _)
IndexAdd(coll, nodes) ==
    IF nodes = <<>> THEN coll
    ELSE LET node == Head(nodes)
             rec == [node_type |-> node.node_type, embedding |-> node.embedding,
                     memory_ids |-> node.memory_ids]
         IN IndexAdd(IF node.id \in DOMAIN coll THEN coll
                     ELSE [n \in DOMAIN coll \cup {node.id} |->
                              IF n = node.id THEN rec ELSE coll[n]],
                     Tail(nodes))

VsResult(op, ids, coll, index_raised, outcome, value) ==
    [collection |-> coll,
     call |-> [op |-> op, ids |-> ids, index_raised |-> index_raised, outcome |-> outcome,
               value |-> value]]

\* mutant: the node is handed to the index whether or not it has a vector
add_node_Unfiltered(coll, node) ==
    IF IndexRaises(<<node.id>>)
    THEN VsResult("add_node", <<node.id>>, coll, TRUE, "raised", <<>>)
    ELSE VsResult("add_node", <<node.id>>, IndexAdd(coll, <<node>>), FALSE, "returned", <<>>)

\* add_node (80-113)
add_node(coll, node) ==
    IF ~node_has_embedding(node)
    THEN VsResult("add_node", <<node.id>>, coll, FALSE, "returned", <<>>)
    ELSE IF IndexRaises(<<node.id>>)
         THEN VsResult("add_node", <<node.id>>, coll, TRUE, "raised", <<>>)
         ELSE VsResult("add_node", <<node.id>>, IndexAdd(coll, <<node>>), FALSE, "returned", <<>>)

\* add_nodes_batch (115-152)
add_nodes_batch(coll, nodes) ==
    LET valid_nodes == SelectSeq(nodes, node_has_embedding)
    IN IF valid_nodes = <<>>
       THEN VsResult("add_nodes_batch", IdsOf(nodes), coll, FALSE, "returned", <<>>)
       ELSE IF IndexRaises(IdsOf(valid_nodes)) \/ DuplicateIds(IdsOf(valid_nodes))
            THEN VsResult("add_nodes_batch", IdsOf(nodes), coll, TRUE, "raised", <<>>)
            ELSE VsResult("add_nodes_batch", IdsOf(nodes), IndexAdd(coll, valid_nodes),
                          FALSE, "returned", <<>>)

\* delete_node (238-254): an id the index does not hold is not an error
delete_node(coll, node_id) ==
    IF IndexRaises(<<node_id>>)
    THEN VsResult("delete_node", <<node_id>>, coll, TRUE, "raised", <<>>)
    ELSE VsResult("delete_node", <<node_id>>,
                  [n \in DOMAIN coll \ {node_id} |-> coll[n]], FALSE, "returned", <<>>)

\* update_node_embedding (256-273)
update_node_embedding(coll, node_id, embedding) ==
    IF IndexRaises(<<node_id>>)
    THEN VsResult("update_node_embedding", <<node_id>>, coll, TRUE, "raised", <<>>)
    ELSE VsResult("update_node_embedding", <<node_id>>,
                  [n \in DOMAIN coll |->
                      IF n = node_id THEN [coll[n] EXCEPT !.embedding = embedding] ELSE coll[n]],
                  FALSE, "returned", <<>>)

\* ---- the VectorStore operations as actions ------------------------------------------
NodeBatches ==
    { <<"n5">>, <<"n1", "n5", "n2">>, <<"n5", "n3">>, <<"n4", "n4">> }

NewEmbeddings == { <<0, 1>> }

SearchLimits == {1, 2}

VsFrame == UNCHANGED <<memories, node_to_memories, outage, pathVars, request, semantic,
                       search, dedup, create>>

AddNode(node_id) ==
    LET res == add_node(collection, MemoryNodeOf(node_id))
    IN collection' = res.collection /\ vs_call' = res.call /\ VsFrame

AddNodesBatch(ids) ==
    LET res == add_nodes_batch(collection, [i \in DOMAIN ids |-> MemoryNodeOf(ids[i])])
    IN collection' = res.collection /\ vs_call' = res.call /\ VsFrame

SearchSimilarNodes(query_embedding, limit) ==
    LET res == search_similar_nodes(query_embedding, limit, 0)
    IN /\ vs_call' = [op |-> "search_similar_nodes", ids |-> <<>>,
                      index_raised |-> outage.query,
                      outcome |-> IF res.raised THEN "raised" ELSE "returned",
                      value |-> res.nodes]
       /\ UNCHANGED collection /\ VsFrame

GetNodeById(node_id) ==
    /\ vs_call' = [op |-> "get_node_by_id", ids |-> <<node_id>>,
                   index_raised |-> IndexRaises(<<node_id>>),
                   outcome |-> "returned", value |-> get_node_by_id(node_id)]
    /\ UNCHANGED collection /\ VsFrame

DeleteNode(node_id) ==
    LET res == delete_node(collection, node_id)
    IN collection' = res.collection /\ vs_call' = res.call /\ VsFrame

UpdateNodeEmbedding(node_id, embedding) ==
    LET res == update_node_embedding(collection, node_id, embedding)
    IN collection' = res.collection /\ vs_call' = res.call /\ VsFrame

\* an initialised store with an empty index; the index is available, fails
\* for n2, or fails for everything
InitVector ==
    /\ memories = SampleMemories
    /\ node_to_memories = IndexOf(SampleMemories)
    /\ collection = <<>>
    /\ outage \in {o \in Outages : o.gs \in {{}, MemoryIds}}
    /\ config = DefaultConfig
    /\ constructed = FALSE
    /\ prefer_node_types = {}
    /\ request = [initial_nodes |-> <<>>, query_embedding |-> NoneVal, top_k |-> 0]
    /\ runs = [r \in Runs |-> IdleRun]
    /\ cur = 0
    /\ semantic = IdleCall
    /\ search = IdleCall
    /\ vs_call = NoVsCall
    /\ dedup = NoDedup
    /\ create = NoCreate

NextVector ==
    \/ \E n \in NodeIds : AddNode(n)
    \/ \E ids \in NodeBatches : AddNodesBatch(ids)
    \/ \E q \in GeneratedEmbeddings, limit \in SearchLimits : SearchSimilarNodes(q, limit)
    \/ \E n \in NodeIds : GetNodeById(n)
    \/ \E n \in NodeIds : DeleteNode(n)
    \/ \E n \in NodeIds, e \in NewEmbeddings : UpdateNodeEmbedding(n, e)

SpecVector == InitVector /\ [][NextVector]_vars

\* ---- deduplicate_memories_by_similarity (memory_deduplication.py) ------------------
MaxDedupLen == 3

\* the memories handed to the deduplication, by the embedding of their first
\* node: B is close to A (0.95) and to C (0.89), C is not close to A (0.71),
\* D is a distractor (0.10 to A), N has no embedding, Z has a zero vector
DedupEmbeddings ==
    [m \in {"A", "B", "C", "D", "N", "Z"} |->
        CASE m = "A" -> <<1, 0>>
          [] m = "B" -> <<3, 1>>
          [] m = "C" -> <<1, 1>>
          [] m = "D" -> <<1, 10>>
          [] m = "N" -> NoneVal
          [] OTHER   -> <<0, 0>>]

DedupScores == {900, 600}

\* the extra data of a result tuple: a dict ({"src": m}) or a list ([m], like
\* the contributing paths of expand_with_path_scoring); merged_count = 0 and
\* original_scores = <<>> stand for a dict without these keys
ExtraTypes == {"dict", "list"}

ExtraData(type, src) ==
    [type |-> type, src |-> src, merged_count |-> 0, original_scores |-> <<>>]

\* (Memory, score, extra_data) with a dict as extra data
DedupEntry(m, score) == [memory |-> m, score |-> score, extra |-> ExtraData("dict", m)]

\* the same tuples with extra data of the given type
WithExtraType(mems, type) ==
    [i \in DOMAIN mems |-> [mems[i] EXCEPT !.extra = ExtraData(type, mems[i].memory)]]

RECURSIVE DistinctSeqs(_, _)
DistinctSeqs(S, n) ==
    IF n = 0 THEN {<<>>}
    ELSE LET shorter == DistinctSeqs(S, n - 1)
         IN shorter \cup {Append(s, x) : s \in {t \in shorter : Len(t) = n - 1},
                                         x \in S} 

DedupInputs ==
    {s \in DistinctSeqs({DedupEntry(m, sc) : m \in DOMAIN DedupEmbeddings, sc \in DedupScores},
                        MaxDedupLen) :
        \A i, j \in DOMAIN s : s[i].memory = s[j].memory => i = j}

DedupThresholds == {0, 850, 1000}

\* keep_top_n: None, or an int held in a one-element tuple
KeepTopN == {NoneVal, <<0>>, <<1>>, <<2>>}

\* _get_memory_embedding (93-119): the embedding of the first node, or None
get_memory_embedding(memory) == DedupEmbeddings[memory]

IsZeroVector(v) == \A i \in DOMAIN v : v[i] = 0

\* one cell of similarity_matrix (137-152)
PairSimilarity(embedding_i, embedding_j) ==
    IF embedding_i = NoneVal \/ embedding_j = NoneVal
       \/ IsZeroVector(embedding_i) \/ IsZeroVector(embedding_j)
    THEN 0
    ELSE cosine_similarity(embedding_i, embedding_j)

\* find (157-160); the path compression does not change the root
RECURSIVE Find(_, _)
Find(parent, x) == IF parent[x] = x THEN x ELSE Find(parent, parent[x])

\* union (162-165)
Union(parent, x, y) ==
    LET px == Find(parent, x)
        py == Find(parent, y)
    IN IF px # py THEN [parent EXCEPT ![px] = py] ELSE parent

\* the pairs (i, j), i < j, in the order of the two nested loops (168-171)
PairsInOrder(n) ==
    LET all == [k \in 1..(n * n) |-> <<((k - 1) \div n) + 1, ((k - 1) % n) + 1>>]
    IN SelectSeq(all, LAMBDA p : p[1] < p[2])

RECURSIVE UnionAll(_, _, _, _)
UnionAll(parent, pairs, embeddings, threshold) ==
    IF pairs = <<>> THEN parent
    ELSE LET i == Head(pairs)[1]
             j == Head(pairs)[2]
         IN UnionAll(IF PairSimilarity(embeddings[i], embeddings[j]) >= threshold
                     THEN Union(parent, i, j) ELSE parent,
                     Tail(pairs), embeddings, threshold)

\* groups_dict (173-179) as the list of its values, in insertion order
RECURSIVE GroupsDict(_, _, _)
GroupsDict(parent, i, acc) ==
    IF i > Len(parent) THEN acc
    ELSE LET root == Find(parent, i)
             hit == {k \in DOMAIN acc : acc[k].root = root}
         IN GroupsDict(parent, i + 1,
                       IF hit = {}
                       THEN Append(acc, [root |-> root, members |-> <<i>>])
                       ELSE [k \in DOMAIN acc |->
                                IF k \in hit
                                THEN [root |-> root, members |-> Append(acc[k].members, i)]
                                ELSE acc[k]])

\* mutant: only entries next to each other in the list are compared
find_duplicate_groups_Adjacent(embeddings, threshold) ==
    LET n == Len(embeddings)
        parent == UnionAll([i \in 1..n |-> i],
                           SelectSeq(PairsInOrder(n), LAMBDA p : p[2] = p[1] + 1),
                           embeddings, threshold)
        groups == GroupsDict(parent, 1, <<>>)
        large == SelectSeq(groups, LAMBDA g : Len(g.members) > 1)
    IN [k \in DOMAIN large |-> large[k].members]

\* _find_duplicate_groups (122-183): the groups of more than one index
find_duplicate_groups(embeddings, threshold) ==
    LET n == Len(embeddings)
        parent == UnionAll([i \in 1..n |-> i], PairsInOrder(n), embeddings, threshold)
        groups == GroupsDict(parent, 1, <<>>)
        large == SelectSeq(groups, LAMBDA g : Len(g.members) > 1)
    IN [k \in DOMAIN large |-> large[k].members]

RECURSIVE Factorial(_)
Factorial(n) == IF n <= 1 THEN 1 ELSE n * Factorial(n - 1)

\* mutant: every rank weighs the same
RankWeight_Uniform(rank, n) == Factorial(n)

\* weight = 1.0 / (i + 1) in units of 1/n!, n the size of the group
RankWeight(rank, n) == Factorial(n) \div (rank + 1)

\* _merge_memory_group (186-223)
merge_memory_group(group) ==
    LET sorted_group == SortDesc(group, [i \in DOMAIN group |-> group[i].score])
        n == Len(sorted_group)
        best == sorted_group[1]
        weighted_sum == SumSeq([i \in 1..n |-> sorted_group[i].score * RankWeight(i - 1, n)])
        total_weight == SumSeq([i \in 1..n |-> RankWeight(i - 1, n)])
        merged_score == IF total_weight > 0 THEN weighted_sum \div total_weight ELSE best.score
        merged_extra == IF best.extra.type = "dict" THEN best.extra ELSE ExtraData("dict", "")
    IN [memory |-> best.memory, score |-> merged_score,
        extra |-> [merged_extra EXCEPT !.merged_count = n,
                       !.original_scores = [i \in 1..n |-> sorted_group[i].score]]]

\* The extra-data objects of the input tuples after the merges: merged_extra
\* is best_extra itself when that is a dict (line 214), so the two keys are
\* set on the object the input tuple holds.
ExtrasAfterMerge(mems, merged) ==
    [i \in DOMAIN mems |->
        IF mems[i].extra.type = "dict" /\ \E k \in DOMAIN merged : merged[k].memory = mems[i].memory
        THEN LET k == CHOOSE k \in DOMAIN merged : merged[k].memory = mems[i].memory
             IN merged[k].extra
        ELSE mems[i].extra]

\* lines 42-43: "if len(mems) <= 1: return memories"
ShortInput(mems) == Len(mems) <= 1

\* the whole function (20-90): the groups found, the merged entry of each
\* group, and the returned list
deduplicate_memories_by_similarity(mems, similarity_threshold, keep_top_n) ==
    LET embeddings == [i \in DOMAIN mems |-> get_memory_embedding(mems[i].memory)]
        duplicate_groups == find_duplicate_groups(embeddings, similarity_threshold)
        merged == [k \in DOMAIN duplicate_groups |->
                      merge_memory_group([x \in DOMAIN duplicate_groups[k] |->
                                             mems[duplicate_groups[k][x]]])]
        processed_indices == UNION {Range(duplicate_groups[k]) : k \in DOMAIN duplicate_groups}
        rest == SelectSeq([i \in DOMAIN mems |-> i], LAMBDA i : i \notin processed_indices)
        deduplicated == merged \o [x \in DOMAIN rest |-> mems[rest[x]]]
        sorted == SortDesc(deduplicated, [i \in DOMAIN deduplicated |-> deduplicated[i].score])
    IN IF ShortInput(mems)
       THEN [groups |-> <<>>, merged |-> <<>>, output |-> mems,
             extras |-> [i \in DOMAIN mems |-> mems[i].extra]]
       ELSE [groups |-> duplicate_groups, merged |-> merged,
             output |-> IF keep_top_n # NoneVal THEN Take(sorted, keep_top_n[1]) ELSE sorted,
             extras |-> ExtrasAfterMerge(mems, merged)]

\* ---- the deduplication as a call on chosen arguments -------------------------------
Deduplicate ==
    /\ dedup.pc = "called"
    /\ dedup' = LET res == deduplicate_memories_by_similarity(
                               dedup.memories, dedup.similarity_threshold, dedup.keep_top_n)
                IN [dedup EXCEPT !.pc = "done", !.groups = res.groups,
                                 !.merged = res.merged, !.output = res.output,
                                 !.extras = res.extras]
    /\ UNCHANGED <<storeVars, pathVars, request, semantic, search, vs_call, create>>

InitDedup ==
    /\ memories = SampleMemories
    /\ node_to_memories = IndexOf(SampleMemories)
    /\ collection = SampleCollection
    /\ outage = [vs |-> {}, query |-> FALSE, gs |-> {}]
    /\ config = DefaultConfig
    /\ constructed = FALSE
    /\ prefer_node_types = {}
    /\ request = [initial_nodes |-> <<>>, query_embedding |-> NoneVal, top_k |-> 0]
    /\ runs = [r \in Runs |-> IdleRun]
    /\ cur = 0
    /\ semantic = IdleCall
    /\ search = IdleCall
    /\ vs_call = NoVsCall
    /\ \E ms \in DedupInputs, type \in ExtraTypes, thr \in DedupThresholds, top \in KeepTopN :
          dedup = [NoDedup EXCEPT !.pc = "called", !.memories = WithExtraType(ms, type),
                                  !.similarity_threshold = thr, !.keep_top_n = top]
    /\ create = NoCreate

NextDedup == Deduplicate

SpecDedup == InitDedup /\ [][NextDedup]_vars

\* ---- MemoryTools.create_memory (memory_tools.py 293-337, 510-518) -----------------
\* GraphStore.add_memory: the memory is indexed by id and by each of its nodes
add_memory(mems, memory) ==
    [m \in DOMAIN mems \cup {memory.id} |-> IF m = memory.id THEN memory ELSE mems[m]]

\* the loop of _add_memory_to_stores (515-518): every node with an embedding
\* is handed to VectorStore.add_node; the first exception ends the loop
RECURSIVE AddEmbeddedNodes(_, _)
AddEmbeddedNodes(coll, nodes) ==
    IF nodes = <<>> THEN [collection |-> coll, raised |-> FALSE]
    ELSE IF Head(nodes).embedding = NoneVal THEN AddEmbeddedNodes(coll, Tail(nodes))
    ELSE LET res == add_node(coll, Head(nodes))
         IN IF res.call.outcome = "raised"
            THEN [collection |-> res.collection, raised |-> TRUE]
            ELSE AddEmbeddedNodes(res.collection, Tail(nodes))

\* create_memory (293-337): build, add to the graph store, add the nodes to
\* the vector store, save the graph; any exception is turned into
\* success = False by the handler of lines 331-337, which undoes nothing
create_memory(mems, coll, memory, save_raises) ==
    LET nodes == [i \in DOMAIN memory.nodes |-> MemoryNodeOf(memory.nodes[i])]
        added == AddEmbeddedNodes(coll, nodes)
    IN [memories |-> add_memory(mems, memory),
        collection |-> added.collection,
        success |-> ~added.raised /\ ~save_raises,
        index_raised |-> added.raised,
        save_raised |-> ~added.raised /\ save_raises]

\* a call for a memory the builder has just made; save_raises: the
\* persistence manager fails to write the graph
CreateMemory(m, save_raises) ==
    /\ m \notin DOMAIN memories
    /\ LET res == create_memory(memories, collection, SampleMemories[m], save_raises)
       IN /\ memories' = res.memories
          /\ node_to_memories' = IndexOf(res.memories)
          /\ collection' = res.collection
          /\ create' = [pc |-> "done", memory_id |-> m, success |-> res.success,
                        index_raised |-> res.index_raised, save_raised |-> res.save_raised,
                        indexed |-> DOMAIN res.collection \ DOMAIN collection]
    /\ UNCHANGED <<outage, pathVars, request, semantic, search, vs_call, dedup>>

\* both stores empty; the index is available, or fails for n2
InitCreate ==
    /\ memories = <<>>
    /\ node_to_memories = IndexOf(<<>>)
    /\ collection = <<>>
    /\ outage \in {o \in Outages : o.gs = {}}
    /\ config = DefaultConfig
    /\ constructed = FALSE
    /\ prefer_node_types = {}
    /\ request = [initial_nodes |-> <<>>, query_embedding |-> NoneVal, top_k |-> 0]
    /\ runs = [r \in Runs |-> IdleRun]
    /\ cur = 0
    /\ semantic = IdleCall
    /\ search = IdleCall
    /\ vs_call = NoVsCall
    /\ dedup = NoDedup
    /\ create = NoCreate

NextCreate == \E m \in MemoryIds, save_raises \in BOOLEAN : CreateMemory(m, save_raises)

SpecCreate == InitCreate /\ [][NextCreate]_vars

\* ---- expand_memories_with_semantic_filter on a chain of memories -----------------
\* m1 shares n2 with m2; m2 shares n3 with m4 and n4 with m3 and m4: from m2
\* the memory m4 is reached twice (through n3, then through n4), and m3 lies
\* two expansion levels away from m1
ChainMemories ==
    [m \in MemoryIds |->
        CASE m = "m1" ->
               [id |-> "m1", nodes |-> <<"n1", "n2">>,
                edges |-> << Edge("n1", "n2", "RELATION", 1000) >>,
                importance |-> 1000, created_at |-> 70]
          [] m = "m2" ->
               [id |-> "m2", nodes |-> <<"n2", "n3", "n4">>,
                edges |-> << Edge("n2", "n3", "RELATION", 1000),
                             Edge("n3", "n4", "RELATION", 1000) >>,
                importance |-> 1000, created_at |-> 10]
          [] m = "m4" ->
               [id |-> "m4", nodes |-> <<"n3", "n4">>, edges |-> <<>>,
                importance |-> 1000, created_at |-> 10]
          [] OTHER ->
               [id |-> "m3", nodes |-> <<"n4", "n5">>, edges |-> <<>>,
                importance |-> 1000, created_at |-> 85]]

ChainSeeds == { <<>>, <<"m1">>, <<"m2">>, <<"m3">> }

MaxDepths == {1, 2}

MaxExpanded == {1, 20}

\* the memories of the chain in the graph store, every node that carries a
\* vector in the index
InitSemantic ==
    /\ memories = ChainMemories
    /\ node_to_memories = IndexOf(ChainMemories)
    /\ collection = IndexAdd(<<>>, [i \in 1..5 |-> MemoryNodeOf(<<"n1", "n2", "n3", "n4", "n5">>[i])])
    /\ outage \in Outages
    /\ config = DefaultConfig
    /\ constructed = FALSE
    /\ prefer_node_types = {}
    /\ request \in [initial_nodes : {<<>>}, query_embedding : QueryEmbeddings \cup GeneratedEmbeddings,
                     top_k : {0}]
    /\ runs = [r \in Runs |-> IdleRun]
    /\ cur = 0
    /\ semantic = IdleCall
    /\ search = IdleCall
    /\ vs_call = NoVsCall
    /\ dedup = NoDedup
    /\ create = NoCreate

NextSemantic ==
    \E ids \in ChainSeeds, thr \in SemanticThresholds, depth \in MaxDepths, cap \in MaxExpanded :
        SemanticExpand(ids, thr, depth, cap)

SpecSemantic == InitSemantic /\ [][NextSemantic]_vars

\* ---- what a caller observes of a finished invocation ---------------------------
ResolvedPaths(rs, paths) ==
    [i \in DOMAIN paths |-> [nodes |-> rs.arena[paths[i]].nodes, score |-> rs.arena[paths[i]].score]]

Observed(rs) ==
    [outcome |-> rs.outcome,
     result |-> [i \in DOMAIN rs.result |->
                    [memory |-> rs.result[i].memory,
                     final_score |-> rs.result[i].final_score,
                     paths |-> ResolvedPaths(rs, rs.result[i].paths)]]]

Returned(r) == runs[r].pc = "done" /\ runs[r].outcome = "returned"

NoDuplicates(seq) == \A i, j \in DOMAIN seq : seq[i] = seq[j] => i = j

\* ---- claims -----------------------------------------------------------------------

\* C5: every Path object of a run (seed, extension, merge input, merged path,
\* and so every contributing path of the result) holds no node id twice.
C5_NoCycle ==
    \A r \in Runs : \A i \in DOMAIN runs[r].arena :
        NoDuplicates(runs[r].arena[i].nodes)

\* a finished run that built a three-node path around the cycle of m1 and a
\* merged path, after meeting the self loop on n2
C5_Witness ==
    \E r \in Runs :
        /\ Returned(r)
        /\ \E i \in DOMAIN runs[r].arena : Len(runs[r].arena[i].nodes) = 3
        /\ \E i \in DOMAIN runs[r].arena : runs[r].arena[i].is_merged
        /\ \E i \in DOMAIN runs[r].arena :
              /\ runs[r].arena[i].depth = 2
              /\ runs[r].arena[i].nodes[2] = "n2"

\* C7: with an empty initial_nodes the call returns [] at once, for every
\* query embedding and top_k: it never enters the hop loop, raises nothing
\* and reads neither store.
C7_EmptyInput ==
    \A r \in Runs :
        (request.initial_nodes = <<>> /\ runs[r].pc # "idle")
            => /\ runs[r].pc = "done"
               /\ runs[r].outcome = "returned"
               /\ runs[r].result = <<>>
               /\ ~runs[r].gs_accessed
               /\ ~runs[r].vs_accessed

\* the call was made with no seeds, no query embedding and a positive top_k
C7_Witness ==
    \E r \in Runs :
        /\ request.initial_nodes = <<>>
        /\ request.query_embedding = NoneVal
        /\ request.top_k > 0
        /\ runs[r].pc = "done"

\* C8: the returned list has at most top_k entries, is sorted by final score
\* in non-increasing order, names each memory once, and no candidate that was
\* left out scores more than the lowest returned entry.
C8_TopK ==
    \A r \in Runs :
        Returned(r) =>
            LET res == runs[r].result
                cand == runs[r].scored
            IN /\ Len(res) <= request.top_k
               /\ \A i, j \in DOMAIN res : i < j => res[i].final_score >= res[j].final_score
               /\ NoDuplicates([i \in DOMAIN res |-> res[i].memory])
               /\ \A c \in DOMAIN cand :
                     (\A i \in DOMAIN res : res[i].memory # cand[c].memory)
                         => \A i \in DOMAIN res : cand[c].final_score <= res[i].final_score

\* three candidates were scored in an order that is not the ranking and the
\* list was cut to a shorter, non-empty result
C8_Witness ==
    \E r \in Runs :
        /\ Returned(r)
        /\ Len(runs[r].scored) = 3
        /\ runs[r].scored[1].final_score < runs[r].scored[3].final_score
        /\ Len(runs[r].result) \in 1..2

\* the (memory, final score) ranking a caller receives
Ranked(rs) ==
    [outcome |-> rs.outcome,
     ranking |-> [i \in DOMAIN rs.result |-> <<rs.result[i].memory, rs.result[i].final_score>>]]

BothDone == \A r \in Runs : runs[r].pc = "done"

C2_Claim ==
    \A r \in Runs :
        runs[r].pc = "done" =>
            Observed(runs[r]) =
                Observed(ResultAlone(config, request, runs[r].prefer, runs[r].ord, runs[r].now))

\* PathExpansionConfig as section 7 of the design requires it
InUnit(x) == 0 <= x /\ x <= Scale

ValidConfig(cfg) ==
    /\ cfg.final_scoring_weights.path_score + cfg.final_scoring_weights.importance
           + cfg.final_scoring_weights.recency = Scale
    /\ InUnit(cfg.pruning_threshold)
    /\ InUnit(cfg.damping_factor)
    /\ InUnit(cfg.high_score_threshold)
    /\ InUnit(cfg.medium_score_threshold)

\* C4 (as claimed): an instance is never constructed, and so no traversal
\* runs, with final weights that do not sum to 1.0 or a threshold outside [0,1].
C4_Claim == constructed => ValidConfig(config)

\* C9 (as claimed): when single lookups fail, no path is created through a
\* neighbor whose index lookup failed and the call does not raise.
SingleLookupFailures ==
    /\ outage.vs # NodeIds
    /\ outage.gs # MemoryIds
    /\ outage.vs \cup outage.gs # {}

C9_Claim ==
    \A r \in Runs :
        SingleLookupFailures =>
            /\ runs[r].outcome # "raised"
            /\ \A i \in DOMAIN runs[r].arena :
                  \A k \in 2..Len(runs[r].arena[i].nodes) :
                      runs[r].arena[i].nodes[k] \notin outage.vs

\* C10 (as claimed): for every neighbor that was scored, the base score is
\* 0.5 without a query embedding and 0.3 with a query embedding when the
\* index gives no embedding for the node (no record, or a record whose
\* embedding is None).
C10_Claim ==
    \A r \in Runs : \A i \in DOMAIN runs[r].arena :
        runs[r].arena[i].depth > 0 =>
            LET node_data == get_node_by_id(get_leaf_node(runs[r].arena[i]))
                base_score == BaseNodeScore(node_data, request.query_embedding)
            IN /\ request.query_embedding = NoneVal => base_score = 500
               /\ (request.query_embedding # NoneVal
                     /\ (~node_data.found \/ node_data.embedding = NoneVal))
                      => base_score = 300

\* ---- C3: a storage outage ends a retrieval call in an explicit failure -----------
\* every access the call made to the vector store, or every access it made
\* to the graph store, failed
AllAccessesFailed(call) ==
    \/ call.vs_accessed /\ outage.vs = NodeIds /\ outage.query
    \/ call.gs_accessed /\ outage.gs = MemoryIds

\* the outcomes a caller can tell from "no matching memory"
ExplicitFailure(call) == call.outcome \in {"raised", "failure"}

\* C3: each of the three retrieval calls that finished while the vector store
\* or the graph store failed on every access ended in an explicit failure,
\* never in an outcome that reads like a successful call.
C3_Claim ==
    /\ \A r \in Runs :
          (runs[r].pc = "done" /\ AllAccessesFailed(runs[r])) => ExplicitFailure(runs[r])
    /\ (semantic.pc = "done" /\ AllAccessesFailed(semantic)) => ExplicitFailure(semantic)
    /\ (search.pc = "done" /\ AllAccessesFailed(search)) => ExplicitFailure(search)

\* ---- C6: score ranges ----------------------------------------------------------------
StoredEmbeddings == {collection[n].embedding : n \in DOMAIN collection}

SimilaritiesInRange ==
    /\ \A v \in StoredEmbeddings \cup QueryEmbeddings, w \in StoredEmbeddings :
          InUnit(cosine_similarity(v, w))
    /\ \A n \in NodeIds : InUnit(BaseNodeScore(get_node_by_id(n), request.query_embedding))

\* a path that is a merge result or descends from one
RECURSIVE MergeInAncestry(_, _)
MergeInAncestry(arena, p) ==
    IF p = NoParent THEN FALSE
    ELSE arena[p].is_merged \/ MergeInAncestry(arena, arena[p].parent)

\* a preference was in force at some time: an invocation was called with one
PreferenceUsed == \E r \in Runs : runs[r].pc # "idle" /\ runs[r].prefer # {}

MergeBonusIn(rs, entry) == \E i \in DOMAIN entry.paths : MergeInAncestry(rs.arena, entry.paths[i])

EdgeMultiplierIn(rs, entry) ==
    \E i \in DOMAIN entry.paths : \E k \in DOMAIN rs.arena[entry.paths[i]].edges :
        get_edge_weight(config, rs.arena[entry.paths[i]].edges[k]) > Scale

InputsInUnit ==
    /\ \A i \in DOMAIN request.initial_nodes : InUnit(request.initial_nodes[i][2])
    /\ \A m \in DOMAIN memories :
          /\ InUnit(memories[m].importance)
          /\ \A k \in DOMAIN memories[m].edges : InUnit(memories[m].edges[k].importance)

C11_Claim == vs_call.index_raised => vs_call.outcome = "raised"

\* ---- C12: the index holds exactly the added nodes that carry an embedding -------
EmbeddedIds(ids) == {ids[i] : i \in {j \in DOMAIN ids : node_has_embedding(MemoryNodeOf(ids[j]))}}

IsAdd(call) == call.op \in {"add_node", "add_nodes_batch"}

\* C12: every add_node / add_nodes_batch call that returns grows the set of
\* indexed ids by exactly the ids of its nodes that carry an embedding (a node
\* without one is skipped without error, the rest of its batch is indexed),
\* so after any sequence of such calls the index holds exactly those ids.
C12_AddsIndexEmbedded ==
    [][(IsAdd(vs_call') /\ vs_call'.outcome = "returned")
          => /\ DOMAIN collection' = DOMAIN collection \cup EmbeddedIds(vs_call'.ids)
             /\ \A n \in DOMAIN collection' : collection'[n].embedding # NoneVal
             /\ (EmbeddedIds(vs_call'.ids) = {} => collection' = collection)]_vars

\* a batch with a node that lacks an embedding was added: its other nodes are
\* indexed, the node without embedding is not
C12_Witness ==
    /\ vs_call.op = "add_nodes_batch" /\ vs_call.outcome = "returned"
    /\ vs_call.ids = <<"n1", "n5", "n2">>
    /\ {"n1", "n2"} \subseteq DOMAIN collection
    /\ "n5" \notin DOMAIN collection


\* ---- C13: duplicate groups are the components of the similarity graph -------------
DedupDone == dedup.pc = "done"

InputEmbedding(i) == get_memory_embedding(dedup.memories[i].memory)

Unembedded(i) == InputEmbedding(i) = NoneVal \/ IsZeroVector(InputEmbedding(i))

\* two inputs are linked: both have a usable embedding and are similar enough
Linked(i, j) ==
    /\ i # j
    /\ ~Unembedded(i) /\ ~Unembedded(j)
    /\ cosine_similarity(InputEmbedding(i), InputEmbedding(j)) >= dedup.similarity_threshold

RECURSIVE Closure(_)
Closure(S) ==
    LET more == S \cup {j \in DOMAIN dedup.memories : \E i \in S : Linked(i, j)}
    IN IF more = S THEN S ELSE Closure(more)

Components == {Closure({i}) : i \in DOMAIN dedup.memories}

MaxScoreIn(c) == CHOOSE v \in {dedup.memories[i].score : i \in c} :
                     \A i \in c : dedup.memories[i].score <= v

\* C13: without keep_top_n, the groups are exactly the components of more
\* than one memory; each gives one output entry, whose Memory is a member
\* with the highest input score; a memory without usable embedding is in no
\* group; a memory alone in its component is returned as it came in.
C13_Claim ==
    (DedupDone /\ dedup.keep_top_n = NoneVal) =>
        /\ {Range(dedup.groups[k]) : k \in DOMAIN dedup.groups}
               = {c \in Components : Cardinality(c) > 1}
        /\ \A i \in DOMAIN dedup.memories : Unembedded(i) =>
               \A k \in DOMAIN dedup.groups : i \notin Range(dedup.groups[k])
        /\ \A c \in Components :
               LET members == {dedup.memories[i].memory : i \in c}
                   hits == {k \in DOMAIN dedup.output : dedup.output[k].memory \in members}
               IN /\ Cardinality(hits) = 1
                  /\ \A k \in hits :
                        IF Cardinality(c) > 1
                        THEN \E i \in c : /\ dedup.memories[i].memory = dedup.output[k].memory
                                          /\ dedup.memories[i].score = MaxScoreIn(c)
                        ELSE \E i \in c : dedup.output[k] = dedup.memories[i]

\* ---- C14: the merged entry of a duplicate group -----------------------------------
Descending(s) == \A i, j \in DOMAIN s : i < j => s[i] >= s[j]

CountOf(s, v) == Cardinality({i \in DOMAIN s : s[i] = v})

SamePermutation(s, t) ==
    Len(s) = Len(t) /\ \A v \in Range(s) \cup Range(t) : CountOf(s, v) = CountOf(t, v)

\* sum(score_i * w_i) and sum(w_i) with w_i = 1/(1+rank_i), both times n!
RankWeightedSum(s) == SumSeq([i \in DOMAIN s |-> s[i] * (Factorial(Len(s)) \div i)])

RankWeightTotal(s) == SumSeq([i \in DOMAIN s |-> Factorial(Len(s)) \div i])

\* C14: the merged entry of every duplicate group has the rank-weighted
\* average of the group's scores (sorted descending, weight 1/(1+rank)) as
\* its score, which lies between the lowest score of the group and the
\* representative's own score; merged_count is the size of the group and
\* original_scores are the group's scores in descending order.
C14_MergedScore ==
    DedupDone =>
        \A k \in DOMAIN dedup.groups :
            LET group == dedup.groups[k]
                entry == dedup.merged[k]
                scores == [x \in DOMAIN group |-> dedup.memories[group[x]].score]
                original == entry.extra.original_scores
            IN /\ entry.extra.merged_count = Len(group)
               /\ SamePermutation(original, scores) /\ Descending(original)
               /\ entry.score * RankWeightTotal(original) <= RankWeightedSum(original)
               /\ RankWeightedSum(original) < (entry.score + 1) * RankWeightTotal(original)
               /\ \E x \in DOMAIN group :
                      /\ dedup.memories[group[x]].memory = entry.memory
                      /\ entry.score <= dedup.memories[group[x]].score
               /\ \A x \in DOMAIN group : entry.score >= original[Len(original)]
               /\ dedup.keep_top_n = NoneVal => entry \in Range(dedup.output)

\* three memories of scores 0.9, 0.6, 0.6 were merged into one entry whose
\* score lies strictly between the lowest and the highest of them
C14_Witness ==
    /\ DedupDone
    /\ \E k \in DOMAIN dedup.groups :
          /\ Len(dedup.groups[k]) = 3
          /\ dedup.merged[k].extra.original_scores = <<900, 600, 600>>
          /\ dedup.merged[k].score = 763
          /\ dedup.merged[k] \in Range(dedup.output)

\* ---- C15: order and size of the deduplicated list ---------------------------------
Ungrouped(i) == \A k \in DOMAIN dedup.groups : i \notin Range(dedup.groups[k])

\* C15: the returned list is sorted by score, non-increasing; with keep_top_n
\* given it has at most keep_top_n entries, whatever the length of the input;
\* a memory of no group that is not cut off is returned with its score and
\* extra data untouched.
C15_Claim ==
    DedupDone =>
        /\ Descending([i \in DOMAIN dedup.output |-> dedup.output[i].score])
        /\ dedup.keep_top_n # NoneVal => Len(dedup.output) <= dedup.keep_top_n[1]
        /\ (dedup.keep_top_n = NoneVal \/ Len(dedup.output) < dedup.keep_top_n[1]) =>
               \A i \in DOMAIN dedup.memories :
                   Ungrouped(i) => dedup.memories[i] \in Range(dedup.output)


\* ---- C16: a memory reached several times keeps its best score --------------------
SemanticDone == semantic.pc = "done" /\ ~semantic.swallowed

ReachScores(m) == {semantic.reaches[i].score : i \in {j \in DOMAIN semantic.reaches :
                                                        semantic.reaches[j].mem_id = m}}

\* C16: the score returned for a memory is the maximum of the relevance
\* scores of all its reaches that passed the threshold.
C16_Claim ==
    SemanticDone =>
        \A k \in DOMAIN semantic.result :
            \A v \in ReachScores(semantic.result[k].mem_id) : semantic.result[k].score >= v

\* ---- C17: what expand_memories_with_semantic_filter returns -----------------------
\* the memories one expansion level away from those of S: owners of a graph
\* neighbor of one of their nodes
OneLevelFrom(S) ==
    S \cup {m \in MemoryIds :
               \E l \in S \cap DOMAIN memories : \E i \in DOMAIN memories[l].nodes :
                   \E nb \in Range(graph_neighbors(memories[l].nodes[i])) : m \in OwnersOf(nb)}

RECURSIVE WithinLevels(_, _)
WithinLevels(S, depth) == IF depth = 0 THEN S ELSE WithinLevels(OneLevelFrom(S), depth - 1)

\* C17: every returned pair has a score of at least semantic_threshold and a
\* memory id outside initial_memory_ids that is returned once; the list has
\* at most max_expanded entries, is sorted by score, non-increasing, and holds
\* no memory that lies more than max_depth expansion levels from the initial
\* memories.
C17_ExpansionResult ==
    semantic.pc = "done" =>
        LET initial_memory_ids == semantic.args[1]
            semantic_threshold == semantic.args[2]
            max_depth == semantic.args[3]
            max_expanded == semantic.args[4]
            result == semantic.result
        IN /\ \A k \in DOMAIN result :
                  /\ result[k].score >= semantic_threshold
                  /\ result[k].mem_id \notin Range(initial_memory_ids)
                  /\ result[k].mem_id \in WithinLevels(Range(initial_memory_ids), max_depth)
           /\ NoDuplicates([k \in DOMAIN result |-> result[k].mem_id])
           /\ Len(result) <= max_expanded
           /\ Descending([k \in DOMAIN result |-> result[k].score])

\* a call with max_depth = 1 returned memories, and a memory that lies two
\* levels away from the initial ones is not in the list
C17_Witness ==
    /\ semantic.pc = "done" /\ semantic.args[3] = 1 /\ semantic.result # <<>>
    /\ \E i \in DOMAIN semantic.reaches : TRUE
    /\ semantic.vs_accessed
    /\ WithinLevels(Range(semantic.args[1]), 2) # WithinLevels(Range(semantic.args[1]), 1)
    /\ \E m \in MemoryIds :
          /\ m \in WithinLevels(Range(semantic.args[1]), 2)
          /\ m \notin WithinLevels(Range(semantic.args[1]), 1)
          /\ \A k \in DOMAIN semantic.result : semantic.result[k].mem_id # m


\* ---- C18: the expansion leaves the stores as they were ----------------------------
\* C18: while and after an invocation runs, whether it returns, raises or is
\* cancelled at its suspension point, the memories of the GraphStore with
\* their nodes and edges, the node_to_memories index and the contents of the
\* VectorStore are what they were before the call.
C18_StoresUntouched ==
    /\ memories = SampleMemories
    /\ node_to_memories = IndexOf(SampleMemories)
    /\ collection = SampleCollection

\* the invocation read both stores, was suspended and then cancelled
C18_Witness ==
    /\ runs[1].pc = "done" /\ runs[1].outcome = "cancelled"
    /\ runs[1].gs_accessed /\ runs[1].vs_accessed


\* ---- C19: the paths that enter final scoring --------------------------------------
\* the path was extended: it is the parent of a path of the run
Extended(rs, p) == \E q \in DOMAIN rs.arena : rs.arena[q].parent = p

\* the path went into a merge and was replaced by the merged path
MergedAway(rs, p) == \E q \in DOMAIN rs.arena : p \in Range(rs.arena[q].merged_from)

\* the paths handed to _map_paths_to_memories and _final_scoring
ScoredPaths(rs) == Range(extract_leaf_paths(rs.arena, rs.active_paths))

HopEnded(rs) ==
    /\ rs.hop >= 1
    /\ \/ rs.pc = "final"
       \/ rs.pc = "hop" /\ rs.idx = 1 /\ rs.next_paths = <<>>

\* C20: at the end of every hop no two active paths end at the same node, and
\* every merged path is marked is_merged and has the node sequence of the
\* later-arriving of its two inputs.
C20_Claim ==
    \A r \in Runs :
        /\ HopEnded(runs[r]) =>
               \A i, j \in DOMAIN runs[r].active_paths :
                   get_leaf_node(runs[r].arena[runs[r].active_paths[i]])
                       = get_leaf_node(runs[r].arena[runs[r].active_paths[j]]) => i = j
        /\ \A p \in DOMAIN runs[r].arena :
               runs[r].arena[p].merged_from # <<>> =>
                   /\ runs[r].arena[p].is_merged
                   /\ runs[r].arena[p].nodes = runs[r].arena[runs[r].arena[p].merged_from[1]].nodes

\* ---- C21: the pruning bound of a retained path -----------------------------------
\* the paths the turn of ExpandPath put into next_paths: new paths and merged
\* paths, created in this turn
AcceptedIn(before, after) ==
    {p \in Range(after.next_paths) : p > Len(before.arena)}

\* the score of the path is within the pruning threshold of the best score
\* recorded for its leaf node
WithinPruningBound(cfg, rs, p) ==
    rs.arena[p].score * Scale
        >= cfg.pruning_threshold * rs.best_score_to_node[get_leaf_node(rs.arena[p])]

\* C21: under a configuration with a pruning threshold in [0, 1], every path a
\* hop puts into its output, a merged path included, has at the moment it is
\* accepted a score of at least pruning_threshold * best_score_to_node[leaf].
C21_Claim ==
    [][\A r \in Runs :
          (runs[r].pc = "hop" /\ runs'[r].outcome # "raised" /\ InUnit(config.pruning_threshold)) =>
              \A p \in AcceptedIn(runs[r], runs'[r]) :
                  WithinPruningBound(config, runs'[r], p)]_vars

\* ---- C22: the anti-explosion valve -------------------------------------------------
\* the step ends a hop of invocation r
EndsHop(r) == runs[r].pc = "hop" /\ runs'[r].hop = runs[r].hop + 1

\* the valve opened at the end of the hop
ValveOpened(r) == Len(runs[r].next_paths) > config.max_active_paths

\* no path of next_paths left out of kept has a higher score than a kept one
TopByScore(arena, next_paths, kept) ==
    /\ Range(kept) \subseteq Range(next_paths)
    /\ \A d \in Range(next_paths) \ Range(kept), k \in Range(kept) :
           arena[d].score <= arena[k].score

\* C22: with 0 <= top_paths_retain <= max_active_paths, a hop leaves at most
\* max_active_paths active paths; if it produced more than max_active_paths
\* paths, exactly the top_paths_retain paths with the highest scores are kept.
C22_ValveBound ==
    [][\A r \in Runs :
          (EndsHop(r) /\ 0 <= config.top_paths_retain
                      /\ config.top_paths_retain <= config.max_active_paths) =>
              /\ Len(runs'[r].active_paths) <= config.max_active_paths
              /\ ValveOpened(r) =>
                     /\ Len(runs'[r].active_paths) = config.top_paths_retain
                     /\ NoDuplicates(runs'[r].active_paths)
                     /\ TopByScore(runs[r].arena, runs[r].next_paths, runs'[r].active_paths)
              /\ ~ValveOpened(r) => runs'[r].active_paths = runs[r].next_paths]_vars

\* a hop produced four paths under the configuration that keeps one of more
\* than two, and one path was kept
C22_Witness ==
    \E r \in Runs :
        /\ config = ValveConfig
        /\ runs[r].hop = 1
        /\ runs[r].pc \in {"hop", "final"}
        /\ Len(runs[r].active_paths) = 1
        /\ Len(runs[r].arena) >= Len(request.initial_nodes) + 4

\* ---- C23: the dynamic branch cap -------------------------------------------------
\* cap(s) as the design states it
BranchCap(cfg, s) ==
    IF s > cfg.high_score_threshold THEN (3 * cfg.max_branches_per_node) \div 2
    ELSE IF s > cfg.medium_score_threshold THEN cfg.max_branches_per_node
    ELSE cfg.max_branches_per_node \div 2

\* the paths created by extending path p (a merged path is not an extension
\* of its own: it stands for one that is counted)
ChildrenOf(rs, p) ==
    {q \in DOMAIN rs.arena : rs.arena[q].parent = p /\ ~rs.arena[q].is_merged}

\* the distinct edges of the graph store that touch the node
NeighborEdges(node_id) ==
    UNION {{e \in Range(memories[m].edges) : e.source_id = node_id \/ e.target_id = node_id} :
              m \in OwnersOf(node_id)}

\* fewer than cap edges at the node weigh more than the edge
AmongHeaviest(cfg, node_id, edge, cap) ==
    Cardinality({EdgeKey(e) : e \in {f \in NeighborEdges(node_id) :
                     get_edge_weight(cfg, f) > get_edge_weight(cfg, edge)}}) < cap

\* C23: a parent path with score s has at most cap(s) children, and each
\* child was created through one of the cap(s) heaviest neighbor edges of the
\* parent's leaf node.
C23_BranchCap ==
    \A r \in Runs : \A p \in DOMAIN runs[r].arena :
        LET parent == runs[r].arena[p]
            cap == BranchCap(config, parent.score)
        IN /\ Cardinality(ChildrenOf(runs[r], p)) <= cap
           /\ \A q \in ChildrenOf(runs[r], p) :
                  LET edge == runs[r].arena[q].edges[Len(runs[r].arena[q].edges)]
                  IN /\ edge \in NeighborEdges(get_leaf_node(parent))
                     /\ AmongHeaviest(config, get_leaf_node(parent), edge, cap)

\* the cap was binding: a seed at n3, which has three neighbor edges, with a
\* low score got its single child through the heaviest edge
C23_Witness ==
    \E r \in Runs :
        /\ config = NarrowConfig
        /\ request.initial_nodes = << <<"n3", 300>> >>
        /\ runs[r].hop >= 1
        /\ Cardinality(ChildrenOf(runs[r], 1)) = 1
        /\ Cardinality(NeighborEdges("n3")) = 3

\* ---- C24: a non-empty answer for seeds that belong to memories --------------------
\* every seed node belongs to at least one Memory of the GraphStore
SeedsOwned ==
    \A i \in DOMAIN request.initial_nodes :
        \E m \in DOMAIN memories : request.initial_nodes[i][1] \in Range(memories[m].nodes)

\* C24: with non-empty initial_nodes, top_k >= 1 and every seed node owned by
\* a memory, a call that returns returns a non-empty list, whatever max_hops
\* is and also when the hop loop stopped early.
C24_Claim ==
    \A r \in Runs :
        (Returned(r) /\ request.initial_nodes # <<>> /\ request.top_k >= 1 /\ SeedsOwned) =>
            runs[r].result # <<>>

\* ---- C25: the order of initial_nodes -------------------------------------------------
\* the lists that hold the entries of s in another order
PermutationsOf(s) ==
    {[i \in DOMAIN s |-> s[f[i]]] :
        f \in {g \in [DOMAIN s -> DOMAIN s] : \A i, j \in DOMAIN s : g[i] = g[j] => i = j}}

\* memory id -> final score over all candidates (top_k large enough)
ScoreMapping(scored) == {<<scored[i].memory, scored[i].final_score>> : i \in DOMAIN scored}

\* no node id is listed twice
DistinctSeeds(initial_nodes) ==
    \A i, j \in DOMAIN initial_nodes : initial_nodes[i][1] = initial_nodes[j][1] => i = j

\* C25: a returned call and the same call with initial_nodes listed in another
\* order score the same memories with the same final scores (checked for
\* lists of distinct nodes).
C25_Claim ==
    \A r \in Runs :
        (Returned(r) /\ DistinctSeeds(request.initial_nodes)) =>
            \A permuted \in PermutationsOf(request.initial_nodes) :
                ScoreMapping(ResultAlone(config, [request EXCEPT !.initial_nodes = permuted],
                                         runs[r].prefer, runs[r].ord, runs[r].now).scored)
                    = ScoreMapping(runs[r].scored)

\* ---- C26: best_score_to_node bounds the paths -------------------------------------
\* the invocation is between its seeding loop and its return
Expanding(rs) == rs.pc \in {"hop", "sleep", "final"}

\* seed paths, active paths and the paths of the hop under construction
LivePaths(rs) ==
    {p \in DOMAIN rs.arena : rs.arena[p].depth = 0}
        \cup Range(rs.active_paths) \cup Range(rs.next_paths)

\* C26: at every point of a run, best_score_to_node is defined at the leaf
\* node of every seed path and every active path, merged paths included, and
\* is at least the score of that path.
C26_Claim ==
    \A r \in Runs :
        Expanding(runs[r]) =>
            \A p \in LivePaths(runs[r]) :
                LET n == get_leaf_node(runs[r].arena[p])
                IN /\ n \in DOMAIN runs[r].best_score_to_node
                   /\ runs[r].best_score_to_node[n] >= runs[r].arena[p].score

\* ---- C27: the shape of a Path --------------------------------------------------------
\* edge i of the path joins nodes[i] and nodes[i+1], in either direction
EdgesJoinNodes(path) ==
    \A i \in DOMAIN path.edges :
        \/ path.edges[i].source_id = path.nodes[i] /\ path.edges[i].target_id = path.nodes[i + 1]
        \/ path.edges[i].target_id = path.nodes[i] /\ path.edges[i].source_id = path.nodes[i + 1]

WellFormedPath(path, initial_nodes) ==
    /\ Len(path.nodes) = path.depth + 1
    /\ Len(path.edges) = path.depth
    /\ \E i \in DOMAIN initial_nodes : path.nodes[1] = initial_nodes[i][1]
    /\ EdgesJoinNodes(path)

\* C27: every path of a run has depth + 1 nodes and depth edges, starts at a
\* seed node, and its edges join consecutive nodes; the active paths of hop h
\* have depth h; no path is deeper than max_hops and the hop loop runs at most
\* max_hops times.
C27_PathShape ==
    \A r \in Runs :
        /\ \A p \in DOMAIN runs[r].arena :
               /\ WellFormedPath(runs[r].arena[p], request.initial_nodes)
               /\ runs[r].arena[p].depth <= config.max_hops
        /\ runs[r].pc \in {"hop", "sleep", "final"} =>
               /\ runs[r].hop <= config.max_hops
               /\ \A i \in DOMAIN runs[r].active_paths :
                      runs[r].arena[runs[r].active_paths[i]].depth = runs[r].hop
               /\ \A i \in DOMAIN runs[r].next_paths :
                      runs[r].arena[runs[r].next_paths[i]].depth = runs[r].hop + 1

\* a run went through max_hops = 2 hops and holds a merged path and a path of
\* three nodes
C27_Witness ==
    \E r \in Runs :
        /\ runs[r].pc = "final"
        /\ runs[r].hop = 2
        /\ config.max_hops = 2
        /\ \E p \in DOMAIN runs[r].arena : runs[r].arena[p].is_merged
        /\ \E p \in Range(runs[r].active_paths) : Len(runs[r].arena[p].nodes) = 3

\* ---- C28: deduplicating a deduplicated list ----------------------------------------
\* the call on its own output, with the same threshold and keep_top_n
SecondPass ==
    deduplicate_memories_by_similarity(dedup.output, dedup.similarity_threshold,
                                       dedup.keep_top_n)

\* C28: deduplicating the output of a call again, with the same
\* similarity_threshold and keep_top_n, returns the same list: the same
\* memories with the same scores in the same order, and no group is found.
C28_Idempotent ==
    DedupDone =>
        /\ SecondPass.output = dedup.output
        /\ SecondPass.groups = <<>>

\* the first pass merged a group and returned two or more entries, so the
\* second pass goes through the grouping and the sort
C28_Witness ==
    /\ DedupDone
    /\ dedup.groups # <<>>
    /\ Len(dedup.output) >= 2
    /\ dedup.similarity_threshold = 850

\* ---- C29: the extra data of the input ------------------------------------------------
\* the input tuple the merged entry of group k took as its representative
RepresentativeOf(k) ==
    CHOOSE i \in Range(dedup.groups[k]) : dedup.memories[i].memory = dedup.merged[k].memory

\* C29: the call leaves the extra-data objects of its input as they were, and
\* the merged entry of a group carries the extra data of its representative
\* besides merged_count and original_scores.
C29_Claim ==
    DedupDone =>
        /\ \A i \in DOMAIN dedup.memories : dedup.extras[i] = dedup.memories[i].extra
        /\ \A k \in DOMAIN dedup.groups :
               /\ dedup.merged[k].extra.src = dedup.memories[RepresentativeOf(k)].extra.src
               /\ dedup.merged[k].extra.type = dedup.memories[RepresentativeOf(k)].extra.type

\* ---- C30: create_memory across the two stores ----------------------------------------
CreateDone == create.pc = "done"

\* the nodes of the memory that carry an embedding
EmbeddedNodesOf(m) ==
    {n \in Range(SampleMemories[m].nodes) : MemoryNodeOf(n).embedding # NoneVal}

\* C30: a call that returned success = False has left the memory out of the
\* GraphStore and has added none of its nodes to the VectorStore; a call that
\* returned success = True has the memory in the GraphStore and every
\* embedding-bearing node of it in the VectorStore.
C30_Claim ==
    CreateDone =>
        /\ ~create.success =>
               /\ create.memory_id \notin DOMAIN memories
               /\ create.indexed = {}
        /\ create.success =>
               /\ create.memory_id \in DOMAIN memories
               /\ EmbeddedNodesOf(create.memory_id) \subseteq DOMAIN collection

=============================================================================
